---------------------------- MODULE Spec2Model ----------------------------
(***************************************************************************)
(* Hellas fraud-game engine (webapp/src/lib/simulation.ts): the            *)
(* closed-form equilibrium solver, the seeded generator and the            *)
(* period-stepped simulation loop of runSimulation.                        *)
(*                                                                         *)
(* Numbers.  A JavaScript number is modelled as an extended rational       *)
(* [n, d]: d > 0 is the finite value n/d in lowest terms, and d = 0 are    *)
(* the IEEE-754 special values: 1/0 is +Infinity, -1/0 is -Infinity and    *)
(* 0/0 is NaN.  Arithmetic on finite values is exact (the rounding of a    *)
(* double is not modelled, except in the generator, where the product      *)
(* exceeds 2^53 and the rounding decides the low bits of the next seed);   *)
(* arithmetic on the special values follows IEEE-754.  All divisors the    *)
(* engine forms from non-negative parameters are +0 when zero, so the      *)
(* sign of zero is not tracked.  Math.sqrt and Math.exp are computed on a  *)
(* fixed decimal grid.                                                     *)
(***************************************************************************)
EXTENDS Integers, Sequences, FiniteSets, TLC

----------------------------------------------------------------------------
(* Extended rationals *)

RECURSIVE Gcd(_, _)
Gcd(a, b) == IF b = 0 THEN a ELSE Gcd(b, a % b)

Abs(x) == IF x < 0 THEN -x ELSE x

Sign(x) == IF x < 0 THEN -1 ELSE IF x > 0 THEN 1 ELSE 0

\* n/d in lowest terms; d = 0 gives the special value of n's sign.
Q(n, d) ==
    IF d = 0 THEN [n |-> Sign(n), d |-> 0]
    ELSE LET g == Gcd(Abs(n), d) IN [n |-> n \div g, d |-> d \div g]

I(n) == [n |-> n, d |-> 1]

NaN == [n |-> 0, d |-> 0]

PosInf == [n |-> 1, d |-> 0]

NegInf == [n |-> -1, d |-> 0]

IsNaN(x) == x.d = 0 /\ x.n = 0

IsFinite(x) == x.d > 0

Neg(x) == [n |-> -x.n, d |-> x.d]

\* x + y.  Infinity + (-Infinity) and anything with NaN are NaN.
Add(x, y) ==
    IF IsNaN(x) \/ IsNaN(y) THEN NaN
    ELSE IF x.d = 0 /\ y.d = 0 THEN (IF x.n = y.n THEN x ELSE NaN)
    ELSE IF x.d = 0 THEN x
    ELSE IF y.d = 0 THEN y
    ELSE LET g == Gcd(x.d, y.d)
             l == (x.d \div g) * y.d
         IN  Q(x.n * (l \div x.d) + y.n * (l \div y.d), l)

Sub(x, y) == Add(x, Neg(y))

\* x * y.  Infinity * 0 and anything with NaN are NaN.
Mul(x, y) ==
    IF IsNaN(x) \/ IsNaN(y) THEN NaN
    ELSE IF x.d = 0 \/ y.d = 0
         THEN (IF x.n = 0 \/ y.n = 0 THEN NaN ELSE Q(Sign(x.n) * Sign(y.n), 0))
    ELSE LET g1 == Gcd(Abs(x.n), y.d)
             g2 == Gcd(Abs(y.n), x.d)
         IN  Q((x.n \div g1) * (y.n \div g2), (x.d \div g2) * (y.d \div g1))

\* 1 / y, with 1 / 0 = +Infinity (the zero divisors of the engine are +0).
Inv(y) ==
    IF IsNaN(y) THEN NaN
    ELSE IF y.d = 0 THEN I(0)
    ELSE IF y.n = 0 THEN PosInf
    ELSE IF y.n < 0 THEN [n |-> -y.d, d |-> -y.n]
    ELSE [n |-> y.d, d |-> y.n]

\* x / y: 0/0 and Infinity/Infinity are NaN, x/0 is Infinity of x's sign.
Div(x, y) == Mul(x, Inv(y))

\* a/b < c/d for b, d > 0, by continued-fraction comparison (no products).
RECURSIVE LtFin(_, _, _, _)
LtFin(a, b, c, d) ==
    LET q1 == a \div b
        q2 == c \div d
        r1 == a % b
        r2 == c % d
    IN  IF q1 # q2 THEN q1 < q2
        ELSE IF r2 = 0 THEN FALSE
        ELSE IF r1 = 0 THEN TRUE
        ELSE LtFin(d, r2, b, r1)

\* x < y as JavaScript compares numbers: false when either is NaN.
Lt(x, y) ==
    IF IsNaN(x) \/ IsNaN(y) THEN FALSE
    ELSE IF x = y THEN FALSE
    ELSE IF x.d = 0 THEN x.n < 0
    ELSE IF y.d = 0 THEN y.n > 0
    ELSE LtFin(x.n, x.d, y.n, y.d)

Gt(x, y) == Lt(y, x)

\* x <= y: false when either is NaN.
Le(x, y) == ~IsNaN(x) /\ ~IsNaN(y) /\ ~Lt(y, x)

Ge(x, y) == Le(y, x)

\* Math.max and Math.min: NaN when either argument is NaN.
MathMax(x, y) ==
    IF IsNaN(x) \/ IsNaN(y) THEN NaN ELSE IF Lt(x, y) THEN y ELSE x

MathMin(x, y) ==
    IF IsNaN(x) \/ IsNaN(y) THEN NaN ELSE IF Lt(y, x) THEN y ELSE x

----------------------------------------------------------------------------
(* SeededRandom: the linear congruential generator.  The seed is an        *)
(* integer in 0 .. 2^31 - 1.  seed * 1103515245 + 12345 is evaluated in    *)
(* double precision: the product is below 2^62 and is rounded to 53        *)
(* significant bits (ties to even), and so is the sum; & 0x7fffffff keeps  *)
(* the low 31 bits of the rounded integer.  An integer below 2^62 is held  *)
(* as <<h, l>> = h * 2^31 + l with 0 <= l < 2^31.                          *)

LcgMultiplier == 1103515245

LcgIncrement == 12345

Mask31 == 2147483647

Limb == 32768

\* seed * LcgMultiplier as <<h, l>>, by schoolbook multiplication in base 2^15.
LcgProduct(seed) ==
    LET s0 == seed % Limb
        s1 == (seed \div Limb) % Limb
        s2 == seed \div (Limb * Limb)
        a0 == LcgMultiplier % Limb
        a1 == (LcgMultiplier \div Limb) % Limb
        a2 == LcgMultiplier \div (Limb * Limb)
        c0 == s0 * a0
        c1 == s0 * a1 + s1 * a0 + (c0 \div Limb)
        c2 == s0 * a2 + s1 * a1 + s2 * a0 + (c1 \div Limb)
        c3 == s1 * a2 + s2 * a1 + (c2 \div Limb)
        c4 == s2 * a2 + (c3 \div Limb)
        p0 == c0 % Limb
        p1 == c1 % Limb
        p2 == c2 % Limb
        p3 == c3 % Limb
    IN  << (p2 \div 2) + p3 * (Limb \div 2) + c4 * (Limb \div 2) * Limb,
           p0 + p1 * Limb + (p2 % 2) * Limb * Limb >>

\* The double nearest to h * 2^31 + l (ties to even), again as <<h, l>>.
\* Below 2^53 (h < 2^22) every integer is a double.
RoundToDouble(h, l) ==
    IF h < 2^22 THEN <<h, l>>
    ELSE LET k    == CHOOSE e \in 1..9 : h >= 2^(21 + e) /\ (e = 9 \/ h < 2^(22 + e))
             unit == 2^k
             r    == l % unit
             base == l - r
             up   == \/ 2 * r > unit
                     \/ 2 * r = unit /\ (l \div unit) % 2 = 1
         IN  IF ~up THEN <<h, base>>
             ELSE IF base = Mask31 - (unit - 1) THEN <<h + 1, 0>>
             ELSE <<h, base + unit>>

\* <<h, l>> + c for a small c >= 0.
AddSmall(h, l, c) ==
    IF l > Mask31 - c THEN <<h + 1, l - (Mask31 - c) - 1>> ELSE <<h, l + c>>

\* this.seed = (this.seed * 1103515245 + 12345) & 0x7fffffff
NextSeed(seed) ==
    LET p == LcgProduct(seed)
        pr == RoundToDouble(p[1], p[2])
        s == AddSmall(pr[1], pr[2], LcgIncrement)
        sr == RoundToDouble(s[1], s[2])
    IN  sr[2]

\* return this.seed / 0x7fffffff, for the seed just stored
Uniform(seed) == Q(seed, Mask31)

----------------------------------------------------------------------------
(* The equilibrium solver *)

DEFAULT_PARAMS ==
    [S_P |-> I(100), P_set |-> I(50), c_H |-> I(5), c_F |-> Q(1, 2),
     C_safe |-> I(8), c_proof |-> I(2), c_tx |-> I(1), beta |-> Q(1, 2),
     lambda |-> I(1), p_w |-> Q(19, 20), B_C |-> I(5), L |-> I(50),
     v_min |-> Q(1, 50)]

\* computeDelta without the slashed stake in the reward.
computeDeltaNoStake(p) ==
    Sub(Sub(Mul(p.p_w, Mul(p.lambda, p.P_set)), Add(p.c_proof, p.c_tx)),
        Mul(Sub(I(1), p.p_w), p.B_C))

\* computeDelta with the whole bond lost, whatever p_w.
computeDeltaFullBond(p) ==
    Sub(Sub(Mul(p.p_w, Add(Mul(p.beta, p.S_P), Mul(p.lambda, p.P_set))),
            Add(p.c_proof, p.c_tx)),
        p.B_C)

\* Delta = p_w (beta S_P + lambda P_set) - (c_proof + c_tx) - (1 - p_w) B_C
computeDelta(p) ==
    Sub(Sub(Mul(p.p_w, Add(Mul(p.beta, p.S_P), Mul(p.lambda, p.P_set))),
            Add(p.c_proof, p.c_tx)),
        Mul(Sub(I(1), p.p_w), p.B_C))

\* computeTheta with a guard that answers +Infinity for a zero divisor.
computeThetaGuarded(p) ==
    IF Add(p.P_set, p.S_P) = I(0) THEN PosInf
    ELSE Div(Sub(p.c_H, p.c_F), Add(p.P_set, p.S_P))

\* theta = (c_H - c_F) / (P_set + S_P)
computeTheta(p) == Div(Sub(p.c_H, p.c_F), Add(p.P_set, p.S_P))

\* computeMinViableStake with a guard that answers +Infinity for a zero
\* divisor.
computeMinViableStakeGuarded(p) ==
    LET C_disp      == Add(Add(p.C_safe, p.c_proof), p.c_tx)
        numerator   == Sub(Add(C_disp, Mul(Sub(I(1), p.p_w), p.B_C)),
                           Mul(Mul(p.p_w, p.lambda), p.P_set))
        denominator == Mul(p.p_w, p.beta)
    IN  IF denominator = I(0) THEN PosInf
        ELSE MathMax(I(0), Div(numerator, denominator))

\* computeMinViableStake without the floor at 0.
computeMinViableStakeUnfloored(p) ==
    LET C_disp      == Add(Add(p.C_safe, p.c_proof), p.c_tx)
        numerator   == Sub(Add(C_disp, Mul(Sub(I(1), p.p_w), p.B_C)),
                           Mul(Mul(p.p_w, p.lambda), p.P_set))
        denominator == Mul(p.p_w, p.beta)
    IN  Div(numerator, denominator)

\* S_P^min = max{0, (C_disp + (1 - p_w) B_C - p_w lambda P_set) / (p_w beta)}
computeMinViableStake(p) ==
    LET C_disp      == Add(Add(p.C_safe, p.c_proof), p.c_tx)
        numerator   == Sub(Add(C_disp, Mul(Sub(I(1), p.p_w), p.B_C)),
                           Mul(Mul(p.p_w, p.lambda), p.P_set))
        denominator == Mul(p.p_w, p.beta)
    IN  MathMax(I(0), Div(numerator, denominator))

\* computeVStar clamped to [0, 1].
computeVStarClamped(p) == MathMax(I(0), MathMin(I(1), computeTheta(p)))

computeVStar(p) == computeTheta(p)

\* computeQStar without the cap at 1.
computeQStarUncapped(p) ==
    LET Delta == computeDelta(p)
    IN  IF Le(Add(p.L, Delta), I(0)) THEN I(1)
        ELSE Div(p.C_safe, Add(p.L, Delta))

\* q* = C_safe / (L + Delta), 1 when L + Delta <= 0, capped at 1
computeQStar(p) ==
    LET Delta == computeDelta(p)
    IN  IF Le(Add(p.L, Delta), I(0)) THEN I(1)
        ELSE MathMin(I(1), Div(p.C_safe, Add(p.L, Delta)))

\* v_star > theta in place of v_star >= theta.
ICsatisfiedStrict(v_star, theta) == Gt(v_star, theta)

\* const isICsatisfied = v_star >= theta
ICsatisfied(v_star, theta) == Ge(v_star, theta)

computeEquilibrium(p) ==
    LET v_star  == computeVStar(p)
        q_star  == computeQStar(p)
        theta   == computeTheta(p)
        Delta   == computeDelta(p)
        S_P_min == computeMinViableStake(p)
    IN  [v_star  |-> v_star,
         q_star  |-> q_star,
         theta   |-> theta,
         Delta   |-> Delta,
         S_P_min |-> S_P_min,
         mu_star |-> q_star,
         isEnforcementViable |-> Ge(p.S_P, S_P_min),
         isICsatisfied       |-> ICsatisfied(v_star, theta),
         expectedProviderUtility |-> Sub(p.P_set, p.c_H),
         expectedClientUtility   |->
             Add(Sub(Sub(Neg(p.P_set), Mul(v_star, p.C_safe)),
                     Mul(Mul(Sub(I(1), v_star), q_star), p.L)),
                 Mul(Mul(v_star, q_star), Delta))]

----------------------------------------------------------------------------
(* Math.exp and Math.sqrt on a decimal grid *)

\* a / b rounded to the nearest integer, for b > 0.
RoundDiv(a, b) == (2 * a + b) \div (2 * b)

\* Math.exp(x): the third-order Taylor polynomial of e^x, to three decimals
\* (the engine calls it on -0.01 * (avgReputation - 50), within [-0.5, 0.5]).
MathExp(x) ==
    IF IsNaN(x) THEN NaN
    ELSE IF x.d = 0 THEN (IF x.n > 0 THEN PosInf ELSE I(0))
    ELSE LET y == RoundDiv(x.n * 1000, x.d)
         IN  Q(1000 + y + RoundDiv(y * y, 2000) + RoundDiv(y * y * y, 6000000),
               1000)

\* The largest s in lo .. hi with s * s <= a (lo * lo <= a is assumed).
RECURSIVE IsqrtIn(_, _, _)
IsqrtIn(a, lo, hi) ==
    IF lo >= hi THEN lo
    ELSE LET mid == (lo + hi + 1) \div 2
         IN  IF mid * mid <= a THEN IsqrtIn(a, mid, hi) ELSE IsqrtIn(a, lo, mid - 1)

\* Math.sqrt(x), rounded down to two decimals; NaN below zero.
MathSqrt(x) ==
    IF IsNaN(x) \/ x.n < 0 THEN NaN
    ELSE IF x.d = 0 THEN PosInf
    ELSE LET q  == x.n \div x.d
             r  == x.n % x.d
             h  == (r * 100) \div x.d
             r2 == (r * 100) % x.d
             a  == q * 10000 + h * 100 + (r2 * 100) \div x.d
         IN  Q(IsqrtIn(a, 0, 46340), 100)

----------------------------------------------------------------------------
(* runSimulation *)

VARIABLES
    params,              \* the ProtocolParams record passed to the engine
    eqOut,               \* what computeEquilibrium returned to the caller
    pc,                  \* "idle", or "running" inside runSimulation
    nPeriods, nJobsPerPeriod, honestFraction, seed,    \* the call's arguments
    rngSeed,             \* SeededRandom.seed of the call's generator
    eq,                  \* const eq = computeEquilibrium(params)
    periods, fraudRates, detectionRates, auditRates, reputationHistory,
    providerProfits, clientLosses, cumulativeWelfare,
    totalJobs, totalFrauds, totalDetected,
    avgReputation, cumProviderProfit, cumClientLoss,
    recentFraudRates, adaptiveAuditProb,
    t, j,                \* the loop counters
    periodFrauds, periodDetected, periodProviderProfit, periodClientLoss,
    periodAudits,
    lastJob,             \* the branch the last job of the call took
    returned,            \* the calls made so far: arguments and result
    callerParams,        \* the record the caller holds (App's params state)
    attackFrame,         \* simulateAttack's arguments and locals
    attackResults,       \* the simulateAttack calls so far: arguments, result
    sensitivityResults,  \* the sensitivityAnalysis calls so far
    activeTab,           \* App's activeTab state
    section,             \* the state and memos of the mounted section
    timers,              \* the pending setTimeout callbacks
    resetPending         \* history: Reset was clicked, and Run not since

argVars == <<nPeriods, nJobsPerPeriod, honestFraction, seed>>

seriesVars == <<periods, fraudRates, detectionRates, auditRates,
                reputationHistory, providerProfits, clientLosses,
                cumulativeWelfare>>

totalVars == <<totalJobs, totalFrauds, totalDetected, avgReputation>>

cumVars == <<cumProviderProfit, cumClientLoss>>

adaptiveVars == <<recentFraudRates, adaptiveAuditProb>>

periodVars == <<periodFrauds, periodDetected, periodProviderProfit,
                periodClientLoss, periodAudits>>

simVars == <<pc, argVars, rngSeed, eq, seriesVars, totalVars, cumVars,
             adaptiveVars, t, j, periodVars, lastJob, returned>>

libVars == <<callerParams, attackFrame, attackResults, sensitivityResults>>

uiVars == <<activeTab, section, timers, resetPending>>

vars == <<params, eqOut, simVars, libVars, uiVars>>

recentWindowSize == 5

learningRate == Q(3, 10)

NoEquilibrium == [computed |-> FALSE]

\* One generator shared by all calls, seeded by the first.
SeededRandomShared(s) == IF returned = <<>> THEN s ELSE rngSeed

\* new SeededRandom(seed)
SeededRandom(s) == s

\* let periodFrauds = 0, ... at the top of the period loop's body
PeriodLocalsReset ==
    /\ periodFrauds' = 0
    /\ periodDetected' = 0
    /\ periodProviderProfit' = I(0)
    /\ periodClientLoss' = I(0)
    /\ periodAudits' = 0

\* No call is active: the locals hold nothing.
NoFrame ==
    /\ nPeriods = 0 /\ nJobsPerPeriod = 0 /\ honestFraction = I(0) /\ seed = 0
    /\ rngSeed = 0
    /\ eq = NoEquilibrium
    /\ periods = <<>> /\ fraudRates = <<>> /\ detectionRates = <<>>
    /\ auditRates = <<>> /\ reputationHistory = <<>>
    /\ providerProfits = <<>> /\ clientLosses = <<>>
    /\ cumulativeWelfare = <<>>
    /\ totalJobs = 0 /\ totalFrauds = 0 /\ totalDetected = 0
    /\ avgReputation = I(0)
    /\ cumProviderProfit = I(0) /\ cumClientLoss = I(0)
    /\ recentFraudRates = <<>> /\ adaptiveAuditProb = I(0)
    /\ t = 0 /\ j = 0
    /\ periodFrauds = 0 /\ periodDetected = 0
    /\ periodProviderProfit = I(0) /\ periodClientLoss = I(0)
    /\ periodAudits = 0
    /\ lastJob = "none"

\* runSimulation(params, nP, nJ, hf, sd): the statements before the loop.
RunSimulation(nP, nJ, hf, sd) ==
    /\ pc = "idle"
    /\ pc' = "running"
    /\ nPeriods' = nP /\ nJobsPerPeriod' = nJ /\ honestFraction' = hf
    /\ seed' = sd
    /\ rngSeed' = SeededRandom(sd)
    /\ eq' = computeEquilibrium(params)
    /\ periods' = <<>> /\ fraudRates' = <<>> /\ detectionRates' = <<>>
    /\ auditRates' = <<>> /\ reputationHistory' = <<>>
    /\ providerProfits' = <<>> /\ clientLosses' = <<>>
    /\ cumulativeWelfare' = <<>>
    /\ totalJobs' = 0 /\ totalFrauds' = 0 /\ totalDetected' = 0
    /\ avgReputation' = I(50)
    /\ cumProviderProfit' = I(0) /\ cumClientLoss' = I(0)
    /\ recentFraudRates' = <<>>
    /\ adaptiveAuditProb' = computeEquilibrium(params).v_star
    /\ t' = 0 /\ j' = 0
    /\ PeriodLocalsReset
    /\ lastJob' = "none"
    /\ UNCHANGED <<params, eqOut, returned>>

\* for (let t = 0; t < nPeriods; t++)
MorePeriods == t < nPeriods

\* j <= nJobsPerPeriod in place of j < nJobsPerPeriod.
MoreJobsInclusive == j <= nJobsPerPeriod

\* for (let j = 0; j < nJobsPerPeriod; j++)
MoreJobs == j < nJobsPerPeriod

\* Math.exp(-0.01 * (avgReputation - 50))
ReputationFactor == MathExp(Mul(Q(-1, 100), Sub(avgReputation, I(50))))

\* U_cheat - U_honest of a rational provider
UtilityDiff ==
    LET estimatedAuditProb == Mul(adaptiveAuditProb, ReputationFactor)
        U_honest == Sub(params.P_set, params.c_H)
        U_cheat == Sub(Sub(params.P_set, params.c_F),
                       Mul(estimatedAuditProb, Add(params.P_set, params.S_P)))
    IN  Sub(U_cheat, U_honest)

\* Math.max(params.v_min, adaptiveAuditProb)
EffectiveAuditProb == MathMax(params.v_min, adaptiveAuditProb)

\* The reward without the routed payment.
RewardNoPayment == Mul(params.beta, params.S_P)

\* params.beta * params.S_P + params.lambda * params.P_set
Reward == Add(Mul(params.beta, params.S_P), Mul(params.lambda, params.P_set))

\* The loss of a failed dispute without the bond.
FailedDisputeLossNoBond == params.C_safe

\* params.C_safe + params.B_C
FailedDisputeLoss == Add(params.C_safe, params.B_C)

\* avgReputation + 0.1 without the cap.
HonestReputationUncapped(reputation) == Add(reputation, Q(1, 10))

\* Math.min(100, avgReputation + 0.1)
HonestReputation(reputation) ==
    MathMin(I(100), Add(reputation, Q(1, 10)))

\* Math.max(0, avgReputation - 5)
SlashedReputation(reputation) == MathMax(I(0), Sub(reputation, I(5)))

\* The counters and accumulators after a job that left the generator at s:
\* cheats, audits (cheats and audited), won (audited and the dispute won).
Settle(s, cheats, audits, won) ==
    /\ rngSeed' = s
    /\ totalJobs' = totalJobs + 1
    /\ totalFrauds' = IF cheats THEN totalFrauds + 1 ELSE totalFrauds
    /\ periodFrauds' = IF cheats THEN periodFrauds + 1 ELSE periodFrauds
    /\ totalDetected' = IF audits THEN totalDetected + 1 ELSE totalDetected
    /\ periodDetected' = IF audits THEN periodDetected + 1 ELSE periodDetected
    /\ periodAudits' = IF audits THEN periodAudits + 1 ELSE periodAudits
    /\ periodProviderProfit' =
         IF won THEN Sub(periodProviderProfit, params.S_P)
         ELSE IF audits THEN periodProviderProfit
         ELSE IF cheats
              THEN Add(periodProviderProfit, Sub(params.P_set, params.c_F))
         ELSE Add(periodProviderProfit, Sub(params.P_set, params.c_H))
    /\ periodClientLoss' =
         IF won
         THEN Sub(periodClientLoss,
                  Sub(Sub(Sub(Reward, params.C_safe), params.c_proof),
                      params.c_tx))
         ELSE IF audits
              THEN Add(periodClientLoss, FailedDisputeLoss)
         ELSE IF cheats THEN Add(periodClientLoss, params.L)
         ELSE periodClientLoss
    /\ avgReputation' =
         IF won THEN SlashedReputation(avgReputation)
         ELSE IF cheats THEN avgReputation
         ELSE HonestReputation(avgReputation)
    /\ lastJob' =
         IF won THEN "won" ELSE IF audits THEN "lost"
         ELSE IF cheats THEN "undetected" ELSE "honest"

\* Dispute with the detection counted only when the dispute is won.
DisputeCountingWins(s, cheats, audits) ==
    IF audits
    THEN LET s4 == NextSeed(s)
         IN  Settle(s4, cheats, Lt(Uniform(s4), params.p_w),
                    Lt(Uniform(s4), params.p_w))
    ELSE Settle(s, cheats, FALSE, FALSE)

\* if (audits): the dispute draws against p_w.
Dispute(s, cheats, audits) ==
    IF audits
    THEN LET s4 == NextSeed(s)
         IN  Settle(s4, cheats, TRUE, Lt(Uniform(s4), params.p_w))
    ELSE Settle(s, cheats, FALSE, FALSE)

\* if (cheats): the client draws against the effective audit probability.
Audit(s, cheats) ==
    IF cheats
    THEN LET s3 == NextSeed(s)
         IN  Dispute(s3, TRUE, Lt(Uniform(s3), EffectiveAuditProb))
    ELSE Dispute(s, FALSE, FALSE)

\* Decide with the honest type deciding as a rational provider does.
DecideIgnoringType(s, isHonestType) ==
    IF Gt(UtilityDiff, I(1))
    THEN LET s2 == NextSeed(s) IN Audit(s2, Gt(Uniform(s2), Q(1, 5)))
    ELSE IF Gt(UtilityDiff, I(-1))
         THEN LET s2 == NextSeed(s) IN Audit(s2, Lt(Uniform(s2), eq.q_star))
    ELSE Audit(s, FALSE)

\* The provider's decision: an honest type never cheats and draws nothing;
\* a rational one draws when the utilities favour cheating or are close.
Decide(s, isHonestType) ==
    IF isHonestType THEN Audit(s, FALSE)
    ELSE IF Gt(UtilityDiff, I(1))
         THEN LET s2 == NextSeed(s) IN Audit(s2, Gt(Uniform(s2), Q(1, 5)))
    ELSE IF Gt(UtilityDiff, I(-1))
         THEN LET s2 == NextSeed(s) IN Audit(s2, Lt(Uniform(s2), eq.q_star))
    ELSE Audit(s, FALSE)

\* One iteration of the job loop that also clamps the audit probability.
JobClampingAuditProb ==
    /\ pc = "running" /\ MorePeriods /\ MoreJobs
    /\ LET s1 == NextSeed(rngSeed)
       IN  Decide(s1, Lt(Uniform(s1), honestFraction))
    /\ j' = j + 1
    /\ adaptiveAuditProb' =
         MathMax(params.v_min, MathMin(I(1), adaptiveAuditProb))
    /\ UNCHANGED <<params, eqOut, pc, argVars, eq, seriesVars, cumVars,
                   recentFraudRates, t, returned, libVars, uiVars>>

\* One iteration of the job loop.
Job ==
    /\ pc = "running" /\ MorePeriods /\ MoreJobs
    /\ LET s1 == NextSeed(rngSeed)
       IN  Decide(s1, Lt(Uniform(s1), honestFraction))
    /\ j' = j + 1
    /\ UNCHANGED <<params, eqOut, pc, argVars, eq, seriesVars, cumVars,
                   adaptiveVars, t, returned, libVars, uiVars>>

RECURSIVE SumSeq(_)
\* recentFraudRates.reduce((a, b) => a + b, 0)
SumSeq(xs) == IF xs = <<>> THEN I(0) ELSE Add(SumSeq(SubSeq(xs, 1, Len(xs) - 1)), xs[Len(xs)])

\* cumProviderProfit + cumClientLoss.
WelfareSum(profit, loss) == Add(profit, loss)

\* cumProviderProfit - cumClientLoss
Welfare(profit, loss) == Sub(profit, loss)

\* DetectionRateEntry with v_star for every period without fraud.
DetectionRateEntryNoCarry ==
    IF periodFrauds > 0 THEN Div(I(periodDetected), I(periodFrauds))
    ELSE eq.v_star

\* The entry pushed on detectionRates at the end of period t.
DetectionRateEntry ==
    IF periodFrauds > 0 THEN Div(I(periodDetected), I(periodFrauds))
    ELSE IF t > 0 THEN detectionRates[t]
    ELSE eq.v_star

\* Math.max(params.v_min, Math.min(1.0, x))
ClampAuditProb(x) == MathMax(params.v_min, MathMin(I(1), x))

\* periodFrauds / nJobsPerPeriod
PeriodFraudRate == Div(I(periodFrauds), I(nJobsPerPeriod))

\* PushWindow without the shift.
PushWindowUnbounded(rates, rate) == Append(rates, rate)

\* recentFraudRates after the push and, past recentWindowSize, the shift
PushWindow(rates, rate) ==
    IF Len(rates) + 1 > recentWindowSize THEN Tail(Append(rates, rate))
    ELSE Append(rates, rate)

\* The mean of the window.
ObservedFraudRate(window) == Div(SumSeq(window), I(Len(window)))

\* eq.v_star * Math.sqrt(fraudRatio)
TargetAuditProb(observedFraudRate) ==
    Mul(eq.v_star,
        MathSqrt(IF Gt(eq.q_star, I(0)) THEN Div(observedFraudRate, eq.q_star)
                 ELSE I(1)))

\* adaptiveAuditProb after the smoothed step toward the target, clamped
AdaptAuditProb(targetAuditProb) ==
    ClampAuditProb(Add(adaptiveAuditProb,
                       Mul(learningRate,
                           Sub(targetAuditProb, adaptiveAuditProb))))

\* The statements after the job loop, and the period loop's t++.
EndPeriod ==
    /\ pc = "running" /\ MorePeriods /\ ~MoreJobs
    /\ recentFraudRates' = PushWindow(recentFraudRates, PeriodFraudRate)
    /\ adaptiveAuditProb' =
         AdaptAuditProb(TargetAuditProb(ObservedFraudRate(recentFraudRates')))
    /\ cumProviderProfit' = Add(cumProviderProfit, periodProviderProfit)
    /\ cumClientLoss' = Add(cumClientLoss, periodClientLoss)
    /\ periods' = Append(periods, t)
    /\ fraudRates' = Append(fraudRates, PeriodFraudRate)
    /\ detectionRates' = Append(detectionRates, DetectionRateEntry)
    /\ auditRates' = Append(auditRates, adaptiveAuditProb')
    /\ reputationHistory' = Append(reputationHistory, avgReputation)
    /\ providerProfits' = Append(providerProfits, cumProviderProfit')
    /\ clientLosses' = Append(clientLosses, cumClientLoss')
    /\ cumulativeWelfare' =
         Append(cumulativeWelfare, Welfare(cumProviderProfit', cumClientLoss'))
    /\ t' = t + 1
    /\ j' = 0
    /\ PeriodLocalsReset
    /\ UNCHANGED <<params, eqOut, pc, argVars, rngSeed, eq, totalVars,
                   lastJob, returned, libVars, uiVars>>

\* The SimulationResult of the return statement.
SimulationResult ==
    [periods |-> periods,
     fraudRates |-> fraudRates,
     detectionRates |-> detectionRates,
     auditRates |-> auditRates,
     reputationHistory |-> reputationHistory,
     providerProfits |-> providerProfits,
     clientLosses |-> clientLosses,
     cumulativeWelfare |-> cumulativeWelfare,
     totalJobs |-> totalJobs,
     totalFrauds |-> totalFrauds,
     totalDetected |-> totalDetected,
     finalFraudRate |-> Div(I(totalFrauds), I(totalJobs)),
     finalDetectionRate |->
         IF totalFrauds > 0 THEN Div(I(totalDetected), I(totalFrauds))
         ELSE eq.v_star,
     socialWelfare |-> Welfare(cumProviderProfit, cumClientLoss)]

\* return { ... }: the caller receives the result and the frame is gone
\* (the finished call's generator is left as garbage, its seed as it was).
Return ==
    /\ pc = "running" /\ ~MorePeriods
    /\ returned' = Append(returned,
                          [params |-> params, nPeriods |-> nPeriods,
                           nJobsPerPeriod |-> nJobsPerPeriod,
                           honestFraction |-> honestFraction, seed |-> seed,
                           result |-> SimulationResult])
    /\ pc' = "idle"
    /\ nPeriods' = 0 /\ nJobsPerPeriod' = 0 /\ honestFraction' = I(0)
    /\ seed' = 0
    /\ eq' = NoEquilibrium
    /\ periods' = <<>> /\ fraudRates' = <<>> /\ detectionRates' = <<>>
    /\ auditRates' = <<>> /\ reputationHistory' = <<>>
    /\ providerProfits' = <<>> /\ clientLosses' = <<>>
    /\ cumulativeWelfare' = <<>>
    /\ totalJobs' = 0 /\ totalFrauds' = 0 /\ totalDetected' = 0
    /\ avgReputation' = I(0)
    /\ cumProviderProfit' = I(0) /\ cumClientLoss' = I(0)
    /\ recentFraudRates' = <<>> /\ adaptiveAuditProb' = I(0)
    /\ t' = 0 /\ j' = 0
    /\ PeriodLocalsReset
    /\ lastJob' = "none"
    /\ UNCHANGED <<params, eqOut, rngSeed, libVars, uiVars>>

----------------------------------------------------------------------------
(* The callers *)

\* const equilibrium = computeEquilibrium(params)
CallComputeEquilibrium ==
    /\ pc = "idle"
    /\ eqOut' = [computed |-> TRUE] @@ computeEquilibrium(params)
    /\ UNCHANGED <<params, simVars, libVars, uiVars>>

MaxPeriods == 2

MaxJobs == 2

MaxCalls == 3

\* Parameter records for the solver: every field over a few values, the
\* defaults among them, with the zero divisors and c_H < c_F.
EqParams ==
    [S_P : {I(0), I(5), I(100)}, P_set : {I(0), I(50)},
     c_H : {I(0), I(5), I(200)}, c_F : {I(0), Q(1, 2), I(8)},
     C_safe : {I(0), I(8)}, c_proof : {I(0), I(2)}, c_tx : {I(0), I(1)},
     beta : {I(0), Q(1, 2), I(1)}, lambda : {I(0), I(1)},
     p_w : {I(0), Q(19, 20), I(1)}, B_C : {I(0), I(5)}, L : {I(0), I(50)},
     v_min : {Q(1, 50)}]

\* Parameter records for the simulation.
SimParams ==
    {DEFAULT_PARAMS,
     [DEFAULT_PARAMS EXCEPT !.S_P = I(5), !.P_set = I(5), !.c_F = I(0),
                            !.p_w = Q(1, 2), !.L = I(5)],
     [DEFAULT_PARAMS EXCEPT !.c_H = I(200)],
     [DEFAULT_PARAMS EXCEPT !.c_H = I(0)],
     [DEFAULT_PARAMS EXCEPT !.S_P = I(0), !.P_set = I(0)],
     [DEFAULT_PARAMS EXCEPT !.v_min = Q(1, 2)]}

HonestFractions == {I(0), Q(3, 5), I(1)}

Seeds == {42, 43}

\* simulateAttack is not active.
NoAttack == [at |-> "idle"]

\* No section is mounted.
NotMounted == [tab |-> "none"]

\* No library call has been made and none is active.
NoLibraryCall ==
    /\ attackFrame = NoAttack
    /\ attackResults = <<>>
    /\ sensitivityResults = <<>>

\* The dashboard is not part of the run.
NoDashboard ==
    /\ activeTab = "equilibrium"
    /\ section = NotMounted
    /\ timers = {}
    /\ resetPending = FALSE

InitEq ==
    /\ params \in EqParams
    /\ callerParams = params
    /\ eqOut = NoEquilibrium
    /\ pc = "idle"
    /\ NoFrame
    /\ returned = <<>>
    /\ NoLibraryCall
    /\ NoDashboard

NextEq == CallComputeEquilibrium

SpecEq == InitEq /\ [][NextEq]_vars

Init ==
    /\ params \in SimParams
    /\ callerParams = params
    /\ eqOut = NoEquilibrium
    /\ pc = "idle"
    /\ NoFrame
    /\ returned = <<>>
    /\ NoLibraryCall
    /\ NoDashboard

\* One call of runSimulation.
Next ==
    \/ \E nP \in 0..MaxPeriods, nJ \in 0..MaxJobs, hf \in HonestFractions,
          sd \in Seeds :
          /\ returned = <<>>
          /\ RunSimulation(nP, nJ, hf, sd)
          /\ UNCHANGED <<libVars, uiVars>>
    \/ Job
    \/ EndPeriod
    \/ Return

Spec == Init /\ [][Next]_vars

\* The control skeleton of a call: what the two for statements and the
\* return do to the position <<t, j, pc>>.  Job, EndPeriod and Return have
\* these guards and these effects on the position, and each assigns every
\* other variable a value computed from the current state, so a step of Next
\* taken by a running call is a Control step, and one is possible exactly
\* when Control is.
Control ==
    /\ pc = "running"
    /\ \/ MorePeriods /\ MoreJobs /\ j' = j + 1 /\ UNCHANGED <<t, pc>>
       \/ MorePeriods /\ ~MoreJobs /\ t' = t + 1 /\ j' = 0 /\ UNCHANGED pc
       \/ ~MorePeriods /\ pc' = "idle" /\ t' = 0 /\ j' = 0

\* The function is synchronous: nothing suspends a call, control keeps
\* advancing until the return.
FairSpec == Spec /\ WF_<<t, j, pc>>(Control)

\* A caller making several calls, one after the other.
NextCalls ==
    \/ \E nP \in {1, MaxPeriods}, hf \in {I(0), Q(3, 5)}, sd \in Seeds :
          /\ Len(returned) < MaxCalls
          /\ RunSimulation(nP, MaxJobs, hf, sd)
          /\ UNCHANGED <<libVars, uiVars>>
    \/ Job
    \/ EndPeriod
    \/ Return

SpecCalls == Init /\ [][NextCalls]_vars

MaxDisputeJobs == 12

\* Parameter records for one long period: one on which every rational
\* provider cheats, is audited and loses the dispute (q* = 1, v_min = 1,
\* p_w = 1), the defaults, and one with disputes lost half of the time.
DisputeParams ==
    {[DEFAULT_PARAMS EXCEPT !.S_P = I(5), !.P_set = I(5), !.c_H = Q(1, 2),
                            !.L = I(0), !.p_w = I(1), !.v_min = I(1)],
     DEFAULT_PARAMS,
     [DEFAULT_PARAMS EXCEPT !.S_P = I(5), !.P_set = I(5), !.c_F = I(0),
                            !.p_w = Q(1, 2), !.L = I(5), !.v_min = I(1)]}

InitDispute ==
    /\ params \in DisputeParams
    /\ callerParams = params
    /\ eqOut = NoEquilibrium
    /\ pc = "idle"
    /\ NoFrame
    /\ returned = <<>>
    /\ NoLibraryCall
    /\ NoDashboard

\* One call of runSimulation with one period of MaxDisputeJobs jobs.
NextDispute ==
    \/ \E hf \in HonestFractions, sd \in Seeds :
          /\ returned = <<>>
          /\ RunSimulation(1, MaxDisputeJobs, hf, sd)
          /\ UNCHANGED <<libVars, uiVars>>
    \/ Job
    \/ EndPeriod
    \/ Return

SpecDispute == InitDispute /\ [][NextDispute]_vars

MaxReputationJobs == 505

\* The extreme honest fractions: every agent rational, every agent honest.
ExtremeFractions == {I(0), I(1)}

\* One call of runSimulation with one period long enough for the reputation
\* to travel from 50 to either of its bounds.
NextReputation ==
    \/ \E hf \in ExtremeFractions, sd \in Seeds :
          /\ returned = <<>>
          /\ RunSimulation(1, MaxReputationJobs, hf, sd)
          /\ UNCHANGED <<libVars, uiVars>>
    \/ Job
    \/ EndPeriod
    \/ Return

SpecReputation == InitDispute /\ [][NextReputation]_vars

MaxWindowPeriods == 7

WindowJobs == 3

\* Parameter records on which the audit probability is pinned at v_min after
\* period 0 (c_H = c_F, so v_star = 0) while rational providers keep
\* cheating with probability q*: one with q* = 16/19, one with q* = 1.
WindowParams ==
    {[DEFAULT_PARAMS EXCEPT !.S_P = I(5), !.P_set = I(5), !.c_H = Q(1, 2),
                            !.L = I(5), !.p_w = I(1)],
     [DEFAULT_PARAMS EXCEPT !.S_P = I(5), !.P_set = I(5), !.c_H = Q(1, 2),
                            !.L = I(0), !.p_w = Q(1, 2), !.v_min = I(0)]}

InitWindow ==
    /\ params \in WindowParams
    /\ callerParams = params
    /\ eqOut = NoEquilibrium
    /\ pc = "idle"
    /\ NoFrame
    /\ returned = <<>>
    /\ NoLibraryCall
    /\ NoDashboard

\* One call of runSimulation with more periods than the window holds.
NextWindow ==
    \/ \E nP \in {MaxWindowPeriods}, hf \in HonestFractions, sd \in Seeds :
          /\ returned = <<>>
          /\ RunSimulation(nP, WindowJobs, hf, sd)
          /\ UNCHANGED <<libVars, uiVars>>
    \/ Job
    \/ EndPeriod
    \/ Return

SpecWindow == InitWindow /\ [][NextWindow]_vars

----------------------------------------------------------------------------
(* Object references *)

\* A reference is modelled by whether it points to an object of its own
\* (own) or to the caller's object, and by the fields it reads there.

\* obj taken as it is: the reference is to the caller's own object.
SpreadAliased(obj) == [own |-> FALSE, fields |-> obj]

\* { ...obj }: a new object with obj's fields
Spread(obj) == [own |-> TRUE, fields |-> obj]

\* ref.f = v, and the [f]: v of an object literal
Assign(ref, f, v) == [ref EXCEPT !.fields[f] = v]

\* The caller's object obj after the writes made through ref.
CallerObject(obj, ref) == IF ref.own THEN obj ELSE ref.fields

----------------------------------------------------------------------------
(* sensitivityAnalysis *)

\* keyof ProtocolParams
ParamNames == DOMAIN DEFAULT_PARAMS

\* xs.unshift(x) in place of xs.push(x).
Unshift(xs, x) == <<x>> \o xs

\* xs.push(x)
Push(xs, x) == Append(xs, x)

RECURSIVE SensitivityLoop(_, _, _, _)
\* for (const value of values), from values[i] on.  st holds the caller's
\* object and the four arrays of results.
SensitivityLoop(st, paramName, values, i) ==
    IF i > Len(values) THEN st
    ELSE LET sensParams == Assign(Spread(st.baseParams), paramName, values[i])
             sensEq == computeEquilibrium(sensParams.fields)
         IN  SensitivityLoop(
                 [baseParams |-> CallerObject(st.baseParams, sensParams),
                  q_star |-> Push(st.q_star, sensEq.q_star),
                  v_star |-> Push(st.v_star, sensEq.v_star),
                  Delta |-> Push(st.Delta, sensEq.Delta),
                  S_P_min |-> Push(st.S_P_min, sensEq.S_P_min)],
                 paramName, values, i + 1)

\* sensitivityAnalysis(callerParams, paramName, values)
SensitivityAnalysis(paramName, values) ==
    /\ pc = "idle" /\ attackFrame = NoAttack
    /\ LET out == SensitivityLoop([baseParams |-> callerParams,
                                   q_star |-> <<>>, v_star |-> <<>>,
                                   Delta |-> <<>>, S_P_min |-> <<>>],
                                  paramName, values, 1)
       IN  /\ sensitivityResults' =
                Append(sensitivityResults,
                       [baseParams |-> callerParams,
                        paramName |-> paramName,
                        results |-> [values |-> values,
                                     q_star |-> out.q_star,
                                     v_star |-> out.v_star,
                                     Delta |-> out.Delta,
                                     S_P_min |-> out.S_P_min]])
           /\ callerParams' = out.baseParams
    /\ UNCHANGED <<params, eqOut, simVars, attackFrame, attackResults, uiVars>>

MaxValues == 2

\* The sequences over S of length at most n.
SeqsUpTo(S, n) == UNION {[1..k -> S] : k \in 0..n}

\* Values substituted for a field.
SensValues == {I(0), I(5), Q(1, 2), I(100)}

\* Base records of a sensitivity analysis.
SensParams ==
    {DEFAULT_PARAMS,
     [DEFAULT_PARAMS EXCEPT !.S_P = I(0), !.P_set = I(0), !.beta = I(0)]}

InitSens ==
    /\ params \in SensParams
    /\ callerParams = params
    /\ eqOut = NoEquilibrium
    /\ pc = "idle"
    /\ NoFrame
    /\ returned = <<>>
    /\ NoLibraryCall
    /\ NoDashboard

\* One call of sensitivityAnalysis.
NextSens ==
    \E paramName \in ParamNames, values \in SeqsUpTo(SensValues, MaxValues) :
        sensitivityResults = <<>> /\ SensitivityAnalysis(paramName, values)

SpecSens == InitSens /\ [][NextSens]_vars

----------------------------------------------------------------------------
(* simulateAttack *)

\* type AttackType
AttackTypes ==
    {"reputation_farming", "no_stake_floor", "sybil", "collusion",
     "censorship"}

\* The name the switch gives the attack.
AttackName(attackType) ==
    CASE attackType = "reputation_farming" -> "Reputation Farming"
      [] attackType = "no_stake_floor" -> "No Stake Floor"
      [] attackType = "sybil" -> "Sybil Attack"
      [] attackType = "collusion" -> "Collusion"
      [] attackType = "censorship" -> "Censorship Attack"
      [] OTHER -> ""

\* The sybil case assigning 0.4 as reputation_farming and collusion do.
AttackHonestFractionFlat(attackType) ==
    CASE attackType \in {"reputation_farming", "sybil", "collusion"} ->
             Q(2, 5)
      [] OTHER -> Q(3, 5)

\* let attackHonestFraction = 0.6 and the switch's assignments to it
AttackHonestFraction(attackType) ==
    CASE attackType = "reputation_farming" -> Q(2, 5)
      [] attackType = "sybil" -> Q(3, 10)
      [] attackType = "collusion" -> Q(2, 5)
      [] OTHER -> Q(3, 5)

\* The switch's assignments through the reference attackParams; p is the
\* params parameter of simulateAttack, read on the right-hand sides.
AttackParams(ref, p, attackType) ==
    CASE attackType = "no_stake_floor" -> Assign(ref, "S_P", I(5))
      [] attackType = "collusion" ->
             Assign(ref, "C_safe", Mul(p.C_safe, I(2)))
      [] attackType = "censorship" -> Assign(ref, "p_w", Mul(p.p_w, Q(7, 10)))
      [] OTHER -> ref

\* attackResult.socialWelfare - baselineResult.socialWelfare.
WelfareLossReversed(baselineResult, attackResult) ==
    Sub(attackResult.socialWelfare, baselineResult.socialWelfare)

\* baselineResult.socialWelfare - attackResult.socialWelfare
WelfareLoss(baselineResult, attackResult) ==
    Sub(baselineResult.socialWelfare, attackResult.socialWelfare)

\* The thresholds compared with >= in place of >.
SeverityInclusive(welfareLoss) ==
    IF Ge(welfareLoss, I(5000)) THEN "critical"
    ELSE IF Ge(welfareLoss, I(2000)) THEN "high"
    ELSE IF Ge(welfareLoss, I(500)) THEN "medium"
    ELSE "low"

\* let severity = 'low'; if (welfareLoss > 5000) ... else if ...
Severity(welfareLoss) ==
    IF Gt(welfareLoss, I(5000)) THEN "critical"
    ELSE IF Gt(welfareLoss, I(2000)) THEN "high"
    ELSE IF Gt(welfareLoss, I(500)) THEN "medium"
    ELSE "low"

\* The jobs per period of both runs of simulateAttack.
AttackJobs == 20

\* const baselineResult = runSimulation(params, nPeriods, 20, 0.6, 42): the
\* call is entered with the caller's record.
SimulateAttack(attackType, nP) ==
    /\ attackFrame = NoAttack
    /\ params = callerParams
    /\ RunSimulation(nP, AttackJobs, Q(3, 5), 42)
    /\ attackFrame' = [at |-> "baseline", params |-> callerParams,
                       attackType |-> attackType, nPeriods |-> nP]
    /\ UNCHANGED <<callerParams, attackResults, sensitivityResults, uiVars>>

\* The baseline run has returned: let attackParams = { ...params }, the
\* switch, and the evaluation of the arguments of the second call.
AttackTransform ==
    /\ pc = "idle" /\ attackFrame.at = "baseline"
    /\ LET ref == AttackParams(Spread(callerParams), callerParams,
                               attackFrame.attackType)
       IN  /\ attackFrame' =
                [at |-> "transformed", params |-> attackFrame.params,
                 attackType |-> attackFrame.attackType,
                 nPeriods |-> attackFrame.nPeriods,
                 baselineResult |-> returned[Len(returned)].result,
                 attackParams |-> ref,
                 attackHonestFraction |->
                     AttackHonestFraction(attackFrame.attackType)]
           /\ callerParams' = CallerObject(callerParams, ref)
           /\ params' = ref.fields
    /\ UNCHANGED <<eqOut, simVars, attackResults, sensitivityResults, uiVars>>

\* runSimulation(attackParams, nPeriods, 20, attackHonestFraction, 43)
AttackCall ==
    /\ attackFrame.at = "transformed"
    /\ RunSimulation(attackFrame.nPeriods, AttackJobs,
                     attackFrame.attackHonestFraction, 43)
    /\ attackFrame' = [attackFrame EXCEPT !.at = "attack"]
    /\ UNCHANGED <<callerParams, attackResults, sensitivityResults, uiVars>>

\* The AttackResult of the return statement.
AttackResult(attackType, baselineResult, attackResult) ==
    [name |-> AttackName(attackType),
     baselineFraudRate |-> baselineResult.finalFraudRate,
     attackFraudRate |-> attackResult.finalFraudRate,
     fraudRateChange |-> Sub(attackResult.finalFraudRate,
                             baselineResult.finalFraudRate),
     welfareLoss |-> WelfareLoss(baselineResult, attackResult),
     attackerProfit |-> Mul(WelfareLoss(baselineResult, attackResult),
                            Q(2, 5)),
     severity |-> Severity(WelfareLoss(baselineResult, attackResult))]

\* The statements after the second run, which returned attackResult.
AttackFinish(attackResult) ==
    /\ pc = "idle" /\ attackFrame.at = "attack"
    /\ attackResults' =
         Append(attackResults,
                [params |-> attackFrame.params,
                 attackType |-> attackFrame.attackType,
                 nPeriods |-> attackFrame.nPeriods,
                 result |-> AttackResult(attackFrame.attackType,
                                         attackFrame.baselineResult,
                                         attackResult)])
    /\ attackFrame' = NoAttack
    /\ params' = callerParams
    /\ UNCHANGED <<callerParams, eqOut, simVars, sensitivityResults, uiVars>>

\* The second run has returned.
AttackReturn == AttackFinish(returned[Len(returned)].result)

MaxAttackPeriods == 1

MaxLibCalls == 2

\* Records a caller passes to simulateAttack.
LibParams ==
    {DEFAULT_PARAMS,
     [DEFAULT_PARAMS EXCEPT !.S_P = I(5), !.P_set = I(5), !.c_F = I(0),
                            !.p_w = Q(1, 2), !.L = I(5)]}

InitLib ==
    /\ params \in LibParams
    /\ callerParams = params
    /\ eqOut = NoEquilibrium
    /\ pc = "idle"
    /\ NoFrame
    /\ returned = <<>>
    /\ NoLibraryCall
    /\ NoDashboard

\* The library calls made so far.
LibCalls == Len(attackResults) + Len(sensitivityResults)

\* A caller making several library calls, one after the other.
NextLib ==
    \/ \E attackType \in AttackTypes, nP \in {0, MaxAttackPeriods} :
          LibCalls < MaxLibCalls /\ SimulateAttack(attackType, nP)
    \/ \E paramName \in {"S_P", "p_w"} :
          /\ LibCalls < MaxLibCalls
          /\ SensitivityAnalysis(paramName, <<I(5), Q(1, 2)>>)
    \/ Job
    \/ EndPeriod
    \/ Return
    \/ AttackTransform
    \/ AttackCall
    \/ AttackReturn

SpecLib == InitLib /\ [][NextLib]_vars

\* The two results in hand at the end of simulateAttack, by the fields read.
ClassifyBaselines ==
    {[finalFraudRate |-> Q(1, 20), socialWelfare |-> w] :
        w \in {I(0), I(6000), I(-500)}}

ClassifyAttacks ==
    {[finalFraudRate |-> Q(1, 10), socialWelfare |-> w] :
        w \in {I(250 * k) : k \in -4..24}
              \cup {Q(n, 100) : n \in {-50001, -49999, 49999, 50001,
                                       -200001, -199999, 399999, 400001,
                                       -500001, -499999, 99999, 100001}}}

\* The second run of a simulateAttack call is about to return.
InitClassify ==
    /\ params = DEFAULT_PARAMS
    /\ callerParams = params
    /\ eqOut = NoEquilibrium
    /\ pc = "idle"
    /\ NoFrame
    /\ returned = <<>>
    /\ \E baselineResult \in ClassifyBaselines, attackType \in AttackTypes :
          attackFrame = [at |-> "attack", params |-> callerParams,
                         attackType |-> attackType, nPeriods |-> 100,
                         baselineResult |-> baselineResult,
                         attackParams |->
                             AttackParams(Spread(callerParams), callerParams,
                                          attackType),
                         attackHonestFraction |->
                             AttackHonestFraction(attackType)]
    /\ attackResults = <<>>
    /\ sensitivityResults = <<>>
    /\ NoDashboard

\* The end of simulateAttack on the result of its second run.
NextClassify == \E attackResult \in ClassifyAttacks : AttackFinish(attackResult)

SpecClassify == InitClassify /\ [][NextClassify]_vars

----------------------------------------------------------------------------
(* Properties of the solver, checked under SpecEq on what the caller got *)

\* 0 <= x <= 1 (false of NaN)
InUnitInterval(x) == Le(I(0), x) /\ Le(x, I(1))

\* L + Delta, the divisor of q*
QStarDivisor == Add(params.L, computeDelta(params))

\* P_set + S_P, the divisor of theta
ThetaDivisor == Add(params.P_set, params.S_P)

\* C_safe + c_proof + c_tx + (1 - p_w) * B_C - p_w * lambda * P_set
StakeNumerator ==
    Sub(Add(Add(Add(params.C_safe, params.c_proof), params.c_tx),
            Mul(Sub(I(1), params.p_w), params.B_C)),
        Mul(Mul(params.p_w, params.lambda), params.P_set))

\* p_w * beta, the divisor of the minimum viable stake
StakeDivisor == Mul(params.p_w, params.beta)

\* C5: computeQStar is in [0,1]; it is 1 when L + Delta <= 0 and otherwise
\* min(1, C_safe / (L + Delta)): the q with q * (L + Delta) = C_safe when
\* C_safe <= L + Delta, and 1 when C_safe is larger.
C5_QStarInUnitInterval ==
    eqOut.computed =>
        /\ InUnitInterval(eqOut.q_star)
        /\ Le(QStarDivisor, I(0)) => eqOut.q_star = I(1)
        /\ Gt(QStarDivisor, I(0)) /\ Le(params.C_safe, QStarDivisor)
             => Mul(eqOut.q_star, QStarDivisor) = params.C_safe
        /\ Gt(QStarDivisor, I(0)) /\ Gt(params.C_safe, QStarDivisor)
             => eqOut.q_star = I(1)

\* A q* strictly inside (0,1), and so a quotient, has been returned.
C5_Witness ==
    /\ eqOut.computed
    /\ Gt(QStarDivisor, I(0))
    /\ Gt(eqOut.q_star, I(0)) /\ Lt(eqOut.q_star, I(1))

\* C6 as claimed: with P_set + S_P > 0, computeVStar is in [0,1].
C6_VStarInUnitInterval ==
    eqOut.computed /\ Gt(ThetaDivisor, I(0)) => InUnitInterval(eqOut.v_star)

\* C6 amended: with P_set + S_P > 0, computeVStar is the unclamped quotient
\* (c_H - c_F) / (P_set + S_P); it is in [0,1] exactly when
\* 0 <= c_H - c_F <= P_set + S_P.
C6_VStarUnclampedQuotient ==
    eqOut.computed /\ Gt(ThetaDivisor, I(0)) =>
        /\ Mul(eqOut.v_star, ThetaDivisor) = Sub(params.c_H, params.c_F)
        /\ InUnitInterval(eqOut.v_star)
             <=> /\ Le(I(0), Sub(params.c_H, params.c_F))
                 /\ Le(Sub(params.c_H, params.c_F), ThetaDivisor)

\* A v* above 1 has been returned for a positive divisor.
C6_Witness ==
    /\ eqOut.computed
    /\ Gt(ThetaDivisor, I(0))
    /\ Gt(eqOut.v_star, I(1))

\* C7 as claimed: with P_set + S_P = 0, theta is +Infinity or the domain
\* error is signalled (a number can signal it only as NaN), for every c_H
\* and c_F.
C7_ThetaPlusInfinityOrError ==
    eqOut.computed /\ ThetaDivisor = I(0) =>
        eqOut.theta = PosInf \/ IsNaN(eqOut.theta)

\* C7 amended: with P_set + S_P = 0, theta (and v*) is +Infinity when
\* c_H > c_F, NaN when c_H = c_F and -Infinity when c_H < c_F.
C7_ThetaSignedInfinityOrNaN ==
    eqOut.computed /\ ThetaDivisor = I(0) =>
        /\ Gt(params.c_H, params.c_F) => eqOut.theta = PosInf
        /\ params.c_H = params.c_F => IsNaN(eqOut.theta)
        /\ Lt(params.c_H, params.c_F) => eqOut.theta = NegInf
        /\ eqOut.v_star = eqOut.theta

\* theta has been returned for a zero divisor and c_H < c_F.
C7_Witness ==
    /\ eqOut.computed
    /\ ThetaDivisor = I(0)
    /\ Lt(params.c_H, params.c_F)
    /\ eqOut.theta = NegInf

\* C8 as claimed: with p_w * beta = 0, the minimum viable stake is
\* +Infinity and enforcement is reported not viable.
C8_ZeroDivisorGivesInfinity ==
    eqOut.computed /\ StakeDivisor = I(0) =>
        eqOut.S_P_min = PosInf /\ ~eqOut.isEnforcementViable

\* C8 amended: with p_w * beta = 0, the minimum viable stake is +Infinity
\* when the numerator is positive and NaN when it is zero (enforcement not
\* viable in both cases), and 0 when the numerator is negative (enforcement
\* viable).
C8_ZeroDivisorBySignOfNumerator ==
    eqOut.computed /\ StakeDivisor = I(0) =>
        /\ Gt(StakeNumerator, I(0))
             => eqOut.S_P_min = PosInf /\ ~eqOut.isEnforcementViable
        /\ StakeNumerator = I(0)
             => IsNaN(eqOut.S_P_min) /\ ~eqOut.isEnforcementViable
        /\ Lt(StakeNumerator, I(0))
             => eqOut.S_P_min = I(0) /\ eqOut.isEnforcementViable

\* A zero divisor with a negative numerator: stake 0, enforcement viable.
C8_Witness ==
    /\ eqOut.computed
    /\ StakeDivisor = I(0)
    /\ Lt(StakeNumerator, I(0))
    /\ eqOut.S_P_min = I(0)
    /\ eqOut.isEnforcementViable

\* C9 as claimed: the two viability flags are equal.
C9_FlagsEqual ==
    eqOut.computed => eqOut.isEnforcementViable = eqOut.isICsatisfied

\* C9 amended: isICsatisfied compares v* with theta, the same value: it is
\* true unless theta is NaN (P_set + S_P = 0 and c_H = c_F), whatever the
\* stake, while isEnforcementViable is S_P >= S_P_min.
C9_ICsatisfiedUnlessNaN ==
    eqOut.computed =>
        /\ eqOut.isICsatisfied <=> ~IsNaN(eqOut.theta)
        /\ IsNaN(eqOut.theta)
             <=> ThetaDivisor = I(0) /\ params.c_H = params.c_F
        /\ eqOut.isEnforcementViable <=> Ge(params.S_P, eqOut.S_P_min)

\* The flags differ: the stake is below the minimum, theta is a number.
C9_Witness ==
    /\ eqOut.computed
    /\ Lt(params.S_P, eqOut.S_P_min)
    /\ ~eqOut.isEnforcementViable
    /\ eqOut.isICsatisfied

\* C10: with p_w * beta > 0, computeMinViableStake is >= 0 and is
\* max(0, numerator / (p_w * beta)): 0 for a numerator <= 0, and otherwise
\* the s with s * (p_w * beta) = numerator.
C10_MinViableStakeFloored ==
    eqOut.computed /\ Gt(StakeDivisor, I(0)) =>
        /\ Ge(eqOut.S_P_min, I(0))
        /\ Le(StakeNumerator, I(0)) => eqOut.S_P_min = I(0)
        /\ Gt(StakeNumerator, I(0))
             => Mul(eqOut.S_P_min, StakeDivisor) = StakeNumerator

\* A negative quotient has been floored at 0.
C10_Witness ==
    /\ eqOut.computed
    /\ Gt(StakeDivisor, I(0))
    /\ Lt(StakeNumerator, I(0))
    /\ eqOut.S_P_min = I(0)

----------------------------------------------------------------------------
(* Properties of runSimulation, checked on the calls that returned *)

Calls == 1..Len(returned)

SameArguments(a, b) ==
    /\ a.params = b.params
    /\ a.nPeriods = b.nPeriods
    /\ a.nJobsPerPeriod = b.nJobsPerPeriod
    /\ a.honestFraction = b.honestFraction
    /\ a.seed = b.seed

\* C1: two calls with the same arguments return the same result (every
\* series and every scalar), whatever calls ran before or between them.
C1_SameArgumentsSameResult ==
    \A a, b \in Calls :
        SameArguments(returned[a], returned[b])
            => returned[a].result = returned[b].result

\* The first and the third call had the same arguments, the call between
\* them other ones, and the draws of the generator decided frauds.
C1_Witness ==
    /\ Len(returned) = 3
    /\ SameArguments(returned[1], returned[3])
    /\ ~SameArguments(returned[1], returned[2])
    /\ returned[1].result.totalFrauds > 0
    /\ returned[1].result.totalFrauds < returned[1].result.totalJobs
    /\ returned[2].result.totalFrauds > 0

\* Every entry of a series of rates is in [0,1].
AllInUnitInterval(rates) == \A i \in 1..Len(rates) : InUnitInterval(rates[i])

\* C2: with nPeriods >= 1 and nJobsPerPeriod >= 1, every probability of a
\* result is in [0,1]: the fraud, detection and audit rates of every period
\* and the two final rates, fraud or no fraud.
C2_ProbabilitiesInUnitInterval ==
    \A c \in Calls :
        returned[c].nPeriods >= 1 /\ returned[c].nJobsPerPeriod >= 1 =>
            /\ AllInUnitInterval(returned[c].result.fraudRates)
            /\ AllInUnitInterval(returned[c].result.detectionRates)
            /\ AllInUnitInterval(returned[c].result.auditRates)
            /\ InUnitInterval(returned[c].result.finalFraudRate)
            /\ InUnitInterval(returned[c].result.finalDetectionRate)

\* C3: a call ends, after exactly nPeriods periods of exactly nJobsPerPeriod
\* jobs each, and its totalJobs is nPeriods * nJobsPerPeriod (zero periods
\* and zero jobs included).
C3_TerminatesWithExactCounts ==
    /\ [](pc = "running" =>
            /\ t <= nPeriods
            /\ j <= nJobsPerPeriod
            /\ Len(periods) = t
            /\ totalJobs = t * nJobsPerPeriod + j)
    /\ [](\A c \in Calls :
            /\ returned[c].result.totalJobs
                 = returned[c].nPeriods * returned[c].nJobsPerPeriod
            /\ Len(returned[c].result.periods) = returned[c].nPeriods)
    /\ (pc = "running" ~> pc = "idle")

\* A call of the most periods and jobs has returned.
C3_Witness ==
    \E c \in Calls :
        /\ returned[c].nPeriods = MaxPeriods
        /\ returned[c].nJobsPerPeriod = MaxJobs
        /\ returned[c].result.totalJobs = MaxPeriods * MaxJobs

\* The last entry of a series, 0 before the first.
LastOr0(xs) == IF xs = <<>> THEN I(0) ELSE xs[Len(xs)]

\* C4: in every result cumulativeWelfare[i] = providerProfits[i] -
\* clientLosses[i] for every period i and socialWelfare is the last
\* cumulativeWelfare entry; and each period appends to providerProfits and
\* clientLosses the previous entry plus that period's delta.
C4_WelfareIsProfitMinusLoss ==
    /\ [](\A c \in Calls :
            LET r == returned[c].result
            IN  /\ Len(r.cumulativeWelfare) = returned[c].nPeriods
                /\ Len(r.providerProfits) = returned[c].nPeriods
                /\ Len(r.clientLosses) = returned[c].nPeriods
                /\ \A i \in 1..Len(r.cumulativeWelfare) :
                      r.cumulativeWelfare[i]
                        = Sub(r.providerProfits[i], r.clientLosses[i])
                /\ r.cumulativeWelfare # <<>>
                     => r.socialWelfare
                          = r.cumulativeWelfare[Len(r.cumulativeWelfare)])
    /\ [][Len(providerProfits') = Len(providerProfits) + 1 =>
            /\ LastOr0(providerProfits')
                 = Add(LastOr0(providerProfits), periodProviderProfit)
            /\ LastOr0(clientLosses')
                 = Add(LastOr0(clientLosses), periodClientLoss)
            /\ Len(clientLosses') = Len(clientLosses) + 1]_vars

\* A result of two periods, with a loss and a profit that changed.
C4_Witness ==
    \E c \in Calls :
        LET r == returned[c].result
        IN  /\ Len(r.providerProfits) = 2
            /\ r.providerProfits[1] # r.providerProfits[2]
            /\ r.clientLosses[1] # I(0)
            /\ r.clientLosses[1] # r.clientLosses[2]
            /\ r.socialWelfare # r.providerProfits[2]


----------------------------------------------------------------------------
(* Properties of sensitivityAnalysis, checked under SpecSens *)

\* baseParams with the field paramName replaced by value.
Substituted(baseParams, paramName, value) ==
    [baseParams EXCEPT ![paramName] = value]

\* C11: the four arrays sensitivityAnalysis returns have the length of
\* values, and element i of each is that field of computeEquilibrium applied
\* to baseParams with the field replaced by values[i].
C11_SensitivityElementwise ==
    \A c \in 1..Len(sensitivityResults) :
        LET call == sensitivityResults[c]
            r == call.results
        IN  /\ Len(r.q_star) = Len(r.values)
            /\ Len(r.v_star) = Len(r.values)
            /\ Len(r.Delta) = Len(r.values)
            /\ Len(r.S_P_min) = Len(r.values)
            /\ \A i \in 1..Len(r.values) :
                  LET e == computeEquilibrium(
                               Substituted(call.baseParams, call.paramName,
                                           r.values[i]))
                  IN  /\ r.q_star[i] = e.q_star
                      /\ r.v_star[i] = e.v_star
                      /\ r.Delta[i] = e.Delta
                      /\ r.S_P_min[i] = e.S_P_min

\* A call has returned arrays of MaxValues elements whose first and last
\* elements differ.
C11_Witness ==
    \E c \in 1..Len(sensitivityResults) :
        LET r == sensitivityResults[c].results
        IN  /\ Len(r.values) = MaxValues
            /\ Len(r.q_star) = MaxValues
            /\ r.q_star[1] # r.q_star[MaxValues]
            /\ r.Delta[1] # r.Delta[MaxValues]



----------------------------------------------------------------------------
(* Properties of the library calls, checked under SpecLib *)

\* C12: no step of sensitivityAnalysis, runSimulation or simulateAttack
\* changes a field of the record the caller holds, in any sequence of calls.
C12_CallerRecordUnchanged == [][callerParams' = callerParams]_vars

\* After a sensitivityAnalysis call and a no_stake_floor attack on a record
\* whose stake is not 5, which ran on a stake of 5.
C12_Witness ==
    /\ sensitivityResults # <<>>
    /\ \E k \in 1..Len(attackResults) :
          /\ attackResults[k].attackType = "no_stake_floor"
          /\ attackResults[k].params.S_P = I(100)
          /\ returned[2 * k].params.S_P = I(5)

\* The two runSimulation calls of the k-th simulateAttack call (simulateAttack
\* is the only caller of runSimulation under SpecLib).
BaselineRun(k) == returned[2 * k - 1]

AttackRun(k) == returned[2 * k]

\* C13: the baseline run gets the caller's record and 0.6; the attack run
\* gets them changed as tabulated and in nothing else: reputation_farming
\* 0.4; no_stake_floor S_P = 5; sybil 0.3; collusion C_safe doubled and 0.4;
\* censorship p_w times 0.7.
C13_AttackTransformsAsTabulated ==
    \A k \in 1..Len(attackResults) :
        LET a == attackResults[k]
            type == a.attackType
            run == AttackRun(k)
        IN  /\ BaselineRun(k).params = a.params
            /\ BaselineRun(k).honestFraction = Q(3, 5)
            /\ type = "reputation_farming" =>
                  run.params = a.params /\ run.honestFraction = Q(2, 5)
            /\ type = "no_stake_floor" =>
                  /\ run.params = [a.params EXCEPT !.S_P = I(5)]
                  /\ run.honestFraction = Q(3, 5)
            /\ type = "sybil" =>
                  run.params = a.params /\ run.honestFraction = Q(3, 10)
            /\ type = "collusion" =>
                  /\ run.params =
                       [a.params EXCEPT !.C_safe = Mul(I(2), a.params.C_safe)]
                  /\ run.honestFraction = Q(2, 5)
            /\ type = "censorship" =>
                  /\ run.params =
                       [a.params EXCEPT !.p_w = Mul(Q(7, 10), a.params.p_w)]
                  /\ run.honestFraction = Q(3, 5)
            /\ type \in AttackTypes

\* A sybil attack and an attack that changes the record have both returned.
C13_Witness ==
    /\ Len(attackResults) = 2
    /\ attackResults[1].attackType = "sybil"
    /\ AttackRun(1).result.totalJobs = AttackJobs * MaxAttackPeriods
    /\ attackResults[2].attackType \in {"collusion", "censorship"}
    /\ AttackRun(2).params # attackResults[2].params

\* C14: the baseline run is runSimulation(params, nPeriods, 20, 0.6, 42) and
\* the attack run has the same nPeriods, 20 jobs and seed 43;
\* baselineFraudRate and attackFraudRate are their finalFraudRate, the
\* baseline one the same for every attackType; fraudRateChange is attack
\* minus baseline, welfareLoss is baseline socialWelfare minus attack
\* socialWelfare, and attackerProfit is 0.4 * welfareLoss.
C14_AttackResultArithmetic ==
    /\ \A k \in 1..Len(attackResults) :
          LET a == attackResults[k]
              r == a.result
              base == BaselineRun(k)
              run == AttackRun(k)
          IN  /\ base.params = a.params /\ base.nPeriods = a.nPeriods
              /\ base.nJobsPerPeriod = 20 /\ base.honestFraction = Q(3, 5)
              /\ base.seed = 42
              /\ run.nPeriods = a.nPeriods /\ run.nJobsPerPeriod = 20
              /\ run.seed = 43
              /\ r.baselineFraudRate = base.result.finalFraudRate
              /\ r.attackFraudRate = run.result.finalFraudRate
              /\ r.fraudRateChange = Sub(r.attackFraudRate, r.baselineFraudRate)
              /\ r.welfareLoss = Sub(base.result.socialWelfare,
                                     run.result.socialWelfare)
              /\ r.attackerProfit = Mul(Q(2, 5), r.welfareLoss)
    /\ \A k1, k2 \in 1..Len(attackResults) :
          /\ attackResults[k1].params = attackResults[k2].params
          /\ attackResults[k1].nPeriods = attackResults[k2].nPeriods
          => attackResults[k1].result.baselineFraudRate
               = attackResults[k2].result.baselineFraudRate

\* Two attacks of different types on the same record and periods, with
\* frauds in the baseline, a changed fraud rate and different welfare losses.
C14_Witness ==
    /\ Len(attackResults) = 2
    /\ attackResults[1].attackType # attackResults[2].attackType
    /\ attackResults[1].nPeriods = MaxAttackPeriods
    /\ attackResults[2].nPeriods = MaxAttackPeriods
    /\ Gt(attackResults[1].result.baselineFraudRate, I(0))
    /\ Gt(attackResults[2].result.fraudRateChange, I(0))
    /\ Gt(attackResults[2].result.welfareLoss, I(0))
    /\ attackResults[1].result.welfareLoss
         # attackResults[2].result.welfareLoss

----------------------------------------------------------------------------
(* Properties of the severity classification, checked under SpecClassify *)

\* C15: severity is decided by welfareLoss alone with strict thresholds:
\* critical iff above 5000, high iff above 2000 and at most 5000, medium iff
\* above 500 and at most 2000, low iff at most 500 (every negative loss
\* included); exactly 500 is low, 2000 medium and 5000 high.
C15_SeverityStepFunction ==
    \A k \in 1..Len(attackResults) :
        LET w == attackResults[k].result.welfareLoss
            severity == attackResults[k].result.severity
        IN  /\ severity = "critical" <=> Gt(w, I(5000))
            /\ severity = "high" <=> Gt(w, I(2000)) /\ Le(w, I(5000))
            /\ severity = "medium" <=> Gt(w, I(500)) /\ Le(w, I(2000))
            /\ severity = "low" <=> Le(w, I(500))
            /\ w = I(500) => severity = "low"
            /\ w = I(2000) => severity = "medium"
            /\ w = I(5000) => severity = "high"
            /\ Lt(w, I(0)) => severity = "low"

\* A welfare loss of exactly 5000 was classified high.
C15_Witness ==
    \E k \in 1..Len(attackResults) :
        /\ attackResults[k].result.welfareLoss = I(5000)
        /\ attackResults[k].result.severity = "high"



----------------------------------------------------------------------------
(* The dashboard: App and its three sections *)

Tabs == {"equilibrium", "simulation", "attacks"}

\* The value runSimulation returns for these arguments.  A dashboard run has
\* 50 to 500 periods of 20 jobs; the value is kept as the call it comes
\* from, runSimulation being a function of its arguments.
RunSimulationOf(p, nP, nJ, hf, sd) ==
    [fn |-> "runSimulation", params |-> p, nPeriods |-> nP,
     nJobsPerPeriod |-> nJ, honestFraction |-> hf, seed |-> sd]

\* The value simulateAttack returns for these arguments, kept as the call
\* it comes from.
SimulateAttackOf(p, attackType, nP) ==
    [fn |-> "simulateAttack", params |-> p, attackType |-> attackType,
     nPeriods |-> nP]

\* useState<SimulationResult | null>(null)
NoResult == [fn |-> "null"]

SimulationJobs == 20

AttacksPeriods == 100

\* The first render of a section with the record p as its params prop: the
\* initial values of its useState hooks and the values of its useMemo hooks.
Mount(tab, p) ==
    CASE tab = "equilibrium" ->
           [tab |-> tab, equilibrium |-> computeEquilibrium(p)]
      [] tab = "attacks" ->
           [tab |-> tab,
            attacks |-> [a \in AttackTypes |->
                           SimulateAttackOf(p, a, AttacksPeriods)]]
      [] tab = "simulation" ->
           [tab |-> tab, params |-> p, nPeriods |-> 200,
            honestFraction |-> Q(3, 5), isRunning |-> FALSE, seed |-> 42,
            result |-> NoResult, equilibrium |-> computeEquilibrium(p)]

\* A later render of the mounted section with the record p as its params
\* prop: the useMemo hooks over [params] are recomputed, the useState hooks
\* keep their values.
Render(sec, p) ==
    CASE sec.tab = "equilibrium" ->
           [sec EXCEPT !.equilibrium = computeEquilibrium(p)]
      [] sec.tab = "attacks" ->
           [sec EXCEPT !.attacks = [a \in AttackTypes |->
                                      SimulateAttackOf(p, a, AttacksPeriods)]]
      [] sec.tab = "simulation" ->
           [sec EXCEPT !.params = p, !.equilibrium = computeEquilibrium(p)]

\* setParams(next) and the render that follows.
SetParams(next) ==
    /\ callerParams' = next
    /\ section' = Render(section, next)
    /\ UNCHANGED <<params, eqOut, simVars, returned, attackFrame,
                   attackResults, sensitivityResults, activeTab, timers,
                   resetPending>>

\* updateParam(key, value): a slider of the sidebar is moved; the new record
\* is { ...prev, [key]: value }.
UpdateParam(key, value) ==
    /\ callerParams[key] # value
    /\ SetParams(Assign(Spread(callerParams), key, value).fields)

\* The Reset to Defaults button.
ResetToDefaults ==
    /\ callerParams # DEFAULT_PARAMS
    /\ SetParams(DEFAULT_PARAMS)

\* setActiveTab(tab): the section of the old tab is unmounted, with its
\* state, and the section of the new one is mounted.  The callbacks the old
\* section has pending stay pending.
SetActiveTab(tab) ==
    /\ tab # activeTab
    /\ activeTab' = tab
    /\ section' = Mount(tab, callerParams)
    /\ timers' = {[tm EXCEPT !.mounted = FALSE] : tm \in timers}
    /\ resetPending' = FALSE
    /\ UNCHANGED <<params, eqOut, simVars, returned, libVars>>

\* setNPeriods(Number(e.target.value))
SetNPeriods(n) ==
    /\ section.tab = "simulation"
    /\ section.nPeriods # n
    /\ section' = [section EXCEPT !.nPeriods = n]
    /\ UNCHANGED <<params, eqOut, simVars, returned, libVars, activeTab,
                   timers, resetPending>>

MaxTimers == 1

\* runSim: the button is disabled while isRunning; the callback closes over
\* the params, nPeriods, honestFraction and seed of the render of the click.
RunSim ==
    /\ section.tab = "simulation"
    /\ ~section.isRunning
    /\ Cardinality(timers) < MaxTimers
    /\ section' = [section EXCEPT !.isRunning = TRUE]
    /\ timers' = timers \cup
         {[params |-> section.params, nPeriods |-> section.nPeriods,
           honestFraction |-> section.honestFraction, seed |-> section.seed,
           mounted |-> TRUE]}
    /\ resetPending' = FALSE
    /\ UNCHANGED <<params, eqOut, simVars, returned, libVars, activeTab>>

\* The callback of setTimeout(..., 100): runSimulation on the captured
\* values, setResult, setIsRunning(false).  On an unmounted section the two
\* setters change nothing that is rendered.
Timeout(tm) ==
    /\ tm \in timers
    /\ timers' = timers \ {tm}
    /\ section' =
         IF tm.mounted
         THEN [section EXCEPT
                 !.result = RunSimulationOf(tm.params, tm.nPeriods,
                                            SimulationJobs, tm.honestFraction,
                                            tm.seed),
                 !.isRunning = FALSE]
         ELSE section
    /\ UNCHANGED <<params, eqOut, simVars, returned, libVars, activeTab,
                   resetPending>>

\* resetSim: setResult(null); setSeed(Math.floor(Math.random() * 10000))
ResetSim(newSeed) ==
    /\ section.tab = "simulation"
    /\ section' = [section EXCEPT !.result = NoResult, !.seed = newSeed]
    /\ resetPending' = TRUE
    /\ UNCHANGED <<params, eqOut, simVars, returned, libVars, activeTab,
                   timers>>

\* The slider moves tried: the stake to its minimum, the honest cost to
\* its maximum.
SliderMoves == {<<"S_P", I(10)>>, <<"c_H", I(20)>>}

PeriodChoices == {50, 200}

SeedChoices == {7}

InitUI ==
    /\ params = DEFAULT_PARAMS
    /\ callerParams = DEFAULT_PARAMS
    /\ eqOut = NoEquilibrium
    /\ pc = "idle"
    /\ NoFrame
    /\ returned = <<>>
    /\ NoLibraryCall
    /\ activeTab = "equilibrium"
    /\ section = Mount("equilibrium", DEFAULT_PARAMS)
    /\ timers = {}
    /\ resetPending = FALSE

NextUI ==
    \/ \E move \in SliderMoves : UpdateParam(move[1], move[2])
    \/ ResetToDefaults
    \/ \E tab \in Tabs : SetActiveTab(tab)
    \/ \E n \in PeriodChoices : SetNPeriods(n)
    \/ RunSim
    \/ \E tm \in timers : Timeout(tm)
    \/ \E newSeed \in SeedChoices : ResetSim(newSeed)

SpecUI == InitUI /\ [][NextUI]_vars

----------------------------------------------------------------------------
(* C16: the stake and the equilibrium cheating probability *)

\* The record p with the stake replaced.
WithStake(p, stake) == [p EXCEPT !.S_P = stake]

\* C16 (as stated): for every record of non-negative fields with p_w, beta
\* and lambda in [0, 1], computeQStar at S_P = 5 is strictly higher than
\* computeQStar at S_P = 100, the other fields being equal.
C16_Original ==
    (eqOut.computed /\ params.S_P = I(5))
        => Gt(eqOut.q_star, computeQStar(WithStake(params, I(100))))

\* C16 (amended): computeQStar at S_P = 5 is never lower than computeQStar at
\* S_P = 100 with the other fields equal, and it is strictly higher when
\* p_w * beta > 0, C_safe > 0 and computeQStar at S_P = 100 is below 1.
C16_LowerStakeNeverLowersQStar ==
    (eqOut.computed /\ params.S_P = I(5))
        => LET q100 == computeQStar(WithStake(params, I(100)))
           IN  /\ Ge(eqOut.q_star, q100)
               /\ (/\ Gt(Mul(params.p_w, params.beta), I(0))
                   /\ Gt(params.C_safe, I(0))
                   /\ Lt(q100, I(1)))
                      => Gt(eqOut.q_star, q100)

\* The solver has answered for a record with S_P = 5 whose q* is strictly
\* higher than, and below 1 like, the q* of the same record with S_P = 100.
C16_Witness ==
    /\ eqOut.computed
    /\ params.S_P = I(5)
    /\ Gt(Mul(params.p_w, params.beta), I(0))
    /\ Gt(params.C_safe, I(0))
    /\ Lt(eqOut.q_star, I(1))
    /\ Gt(eqOut.q_star, computeQStar(WithStake(params, I(100))))

----------------------------------------------------------------------------
(* C17: the solver on the default parameters *)

\* C17: on the default parameters (S_P = 100, P_set = 50, c_H = 5,
\* c_F = 0.5, C_safe = 8, c_proof = 2, c_tx = 1, beta = 0.5, lambda = 1,
\* p_w = 0.95, B_C = 5, L = 50) computeDelta is 91.75, computeTheta is
\* 0.03 = 4.5 / 150 and computeQStar is 8 / 141.75.
C17_DefaultEquilibrium ==
    /\ DEFAULT_PARAMS.S_P = I(100) /\ DEFAULT_PARAMS.P_set = I(50)
    /\ DEFAULT_PARAMS.c_H = I(5) /\ DEFAULT_PARAMS.c_F = Q(1, 2)
    /\ DEFAULT_PARAMS.C_safe = I(8) /\ DEFAULT_PARAMS.c_proof = I(2)
    /\ DEFAULT_PARAMS.c_tx = I(1) /\ DEFAULT_PARAMS.beta = Q(1, 2)
    /\ DEFAULT_PARAMS.lambda = I(1) /\ DEFAULT_PARAMS.p_w = Q(95, 100)
    /\ DEFAULT_PARAMS.B_C = I(5) /\ DEFAULT_PARAMS.L = I(50)
    /\ (eqOut.computed /\ params = DEFAULT_PARAMS)
          => /\ eqOut.Delta = Q(9175, 100)
             /\ eqOut.theta = Q(3, 100)
             /\ eqOut.theta = Div(Q(45, 10), I(150))
             /\ eqOut.q_star = Div(I(8), Q(14175, 100))

\* The solver has answered for the default parameters.
C17_Witness ==
    /\ eqOut.computed
    /\ params = DEFAULT_PARAMS
    /\ eqOut.q_star = Q(32, 567)

----------------------------------------------------------------------------
(* C19: the settlement of a won dispute *)

\* The step is a job whose fraud was detected and whose dispute draw, the
\* last draw of the job, fell below p_w.
WonDisputeStep ==
    /\ totalJobs' = totalJobs + 1
    /\ totalFrauds' = totalFrauds + 1
    /\ totalDetected' = totalDetected + 1
    /\ Lt(Uniform(rngSeed'), params.p_w)

\* The client's side of a won dispute: the loss decreases by
\* beta * S_P + lambda * P_set net of C_safe + c_proof + c_tx, and the
\* reputation drops by 5, floored at 0.
WonDisputeClientAndReputation ==
    /\ periodClientLoss' =
         Sub(periodClientLoss,
             Sub(Add(Mul(params.beta, params.S_P),
                     Mul(params.lambda, params.P_set)),
                 Add(Add(params.C_safe, params.c_proof), params.c_tx)))
    /\ avgReputation' = IF Ge(avgReputation, I(5))
                        THEN Sub(avgReputation, I(5)) ELSE I(0)

\* C19 (as stated): when a cheating job is detected and its dispute
\* succeeds, the provider's profit for the period decreases by exactly
\* beta * S_P + lambda * P_set, the client's loss decreases by that amount
\* net of C_safe + c_proof + c_tx, and the reputation drops by 5, floored
\* at 0.
C19_Original ==
    [][WonDisputeStep
         => /\ periodProviderProfit' =
                 Sub(periodProviderProfit,
                     Add(Mul(params.beta, params.S_P),
                         Mul(params.lambda, params.P_set)))
            /\ WonDisputeClientAndReputation]_vars

\* C19 (amended): when a cheating job is detected and its dispute succeeds,
\* the provider's profit for the period decreases by exactly the whole
\* stake S_P, the client's loss decreases by beta * S_P + lambda * P_set
\* net of C_safe + c_proof + c_tx, and the reputation drops by 5, floored
\* at 0.
C19_WonDisputeSettlement ==
    [][WonDisputeStep
         => /\ periodProviderProfit' = Sub(periodProviderProfit, params.S_P)
            /\ WonDisputeClientAndReputation]_vars

\* An eleventh dispute has been won in a period, with a stake that differs
\* from the reward: the reputation, 50 at the start, is held at the floor.
C19_Witness ==
    /\ pc = "running"
    /\ lastJob = "won"
    /\ periodDetected >= 11
    /\ avgReputation = I(0)
    /\ params.S_P # Add(Mul(params.beta, params.S_P),
                        Mul(params.lambda, params.P_set))
    /\ periodProviderProfit = Mul(I(-1 * periodDetected), params.S_P)

----------------------------------------------------------------------------
(* C20: the bounds of the adaptive audit probability *)

\* C20: in every state of a run, the jobs of period 0 included,
\* adaptiveAuditProb lies in [v_min, 1].
C20_AuditProbWithinBounds ==
    pc = "running"
        => /\ Ge(adaptiveAuditProb, params.v_min)
           /\ Le(adaptiveAuditProb, I(1))

----------------------------------------------------------------------------
(* C18: what the tabs display after a change of the parameters *)

\* The Equilibrium tab shows the equilibrium of the current record.
EquilibriumDisplayCurrent ==
    section.tab = "equilibrium"
        => section.equilibrium = computeEquilibrium(callerParams)

\* The Attacks tab shows the five attack results of the current record.
AttacksDisplayCurrent ==
    section.tab = "attacks"
        => \A a \in AttackTypes :
              section.attacks[a]
                  = SimulateAttackOf(callerParams, a, AttacksPeriods)

\* The Simulation tab shows no result, or a result of the current record.
SimulationDisplayCurrent ==
    (section.tab = "simulation" /\ section.result # NoResult)
        => section.result.params = callerParams

\* C18: whatever changes were made to the parameters, what every tab
\* displays is computed from the record currently in the sidebar: the
\* Equilibrium values, the five Attack results and the Simulation result
\* shown, if any.
C18_DisplaysCorrespondToParams ==
    /\ EquilibriumDisplayCurrent
    /\ AttacksDisplayCurrent
    /\ SimulationDisplayCurrent

----------------------------------------------------------------------------
(* C21: which jobs are counted as fraud *)

\* The step processes one job.
JobStep == totalJobs' = totalJobs + 1

\* The job of the step is counted as fraud.
FraudStep == JobStep /\ totalFrauds' = totalFrauds + 1

\* The first draw of the job about to be processed: the agent's type.
TypeDraw == Uniform(NextSeed(rngSeed))

\* The second draw of the job about to be processed, when the agent is not
\* of the honest type: the cheat draw.
CheatDraw == Uniform(NextSeed(NextSeed(rngSeed)))

\* C21: a job is counted as fraud only when its type draw is not below
\* honestFraction and either d = U_cheat - U_honest is above 1 and the
\* cheat draw is above 0.2, or -1 < d <= 1 and the cheat draw is below
\* q_star; a job of an honest type, and one with d <= -1, is never counted
\* as fraud.
C21_FraudOnlyByRationalDecision ==
    [][/\ FraudStep
          => /\ ~Lt(TypeDraw, honestFraction)
             /\ \/ Gt(UtilityDiff, I(1)) /\ Gt(CheatDraw, Q(1, 5))
                \/ /\ Gt(UtilityDiff, I(-1)) /\ Le(UtilityDiff, I(1))
                   /\ Lt(CheatDraw, eq.q_star)
       /\ (JobStep /\ Lt(TypeDraw, honestFraction))
          => totalFrauds' = totalFrauds
       /\ (JobStep /\ Le(UtilityDiff, I(-1)))
          => totalFrauds' = totalFrauds]_vars

\* A fraud that went unaudited has just been counted for an agent whose
\* utility gap is above 1 (the gap depends on the job only through the
\* reputation, which an unaudited fraud leaves alone).
C21_Witness ==
    /\ pc = "running"
    /\ lastJob = "undetected"
    /\ periodFrauds >= 1
    /\ Gt(UtilityDiff, I(1))

----------------------------------------------------------------------------
(* C22: the bounds of the reputation *)

\* C22: avgReputation is 50 when the run starts and lies in [0, 100] in
\* every state of the run, whatever honest executions (+0.1, capped at 100)
\* and successful disputes (-5, floored at 0) the run has seen; so do the
\* values recorded in reputationHistory.
C22_ReputationWithinBounds ==
    pc = "running"
        => /\ totalJobs = 0 => avgReputation = I(50)
           /\ Ge(avgReputation, I(0)) /\ Le(avgReputation, I(100))
           /\ \A k \in 1..Len(reputationHistory) :
                 /\ Ge(reputationHistory[k], I(0))
                 /\ Le(reputationHistory[k], I(100))

\* More than 500 honest executions in a row: the reputation is held at the
\* cap by the last of them.
C22_Witness ==
    /\ pc = "running"
    /\ lastJob = "honest"
    /\ totalJobs > 500
    /\ totalFrauds = 0
    /\ avgReputation = I(100)

----------------------------------------------------------------------------
(* C23: the detection rate recorded for a period *)

\* The step ends a period: it records one more entry in every series.
EndPeriodStep == Len(periods') = Len(periods) + 1

\* C23: the entry recorded for period t is periodDetected / periodFrauds
\* when the period had a fraud; when it had none it is the entry of period
\* t - 1 for t > 0 and v_star for t = 0, so that every entry of a period
\* without fraud repeats the entry before it.
C23_DetectionRateCarriedForward ==
    [][EndPeriodStep
         => /\ Len(detectionRates') = t + 1
            /\ detectionRates'[t + 1] =
                 IF periodFrauds > 0
                 THEN Div(I(periodDetected), I(periodFrauds))
                 ELSE IF t > 0 THEN detectionRates'[t]
                 ELSE eq.v_star
            /\ \A k \in 1..t : detectionRates'[k] = detectionRates[k]
            /\ \A k \in 1..(t + 1) :
                  ~Gt(fraudRates'[k], I(0))
                      => detectionRates'[k] =
                           IF k > 1 THEN detectionRates'[k - 1]
                           ELSE eq.v_star]_vars

\* Two periods are over: the first had a fraud and a detection rate other
\* than v_star, the second had jobs and no fraud and repeats that rate.
C23_Witness ==
    /\ pc = "running"
    /\ Len(detectionRates) = 2
    /\ nJobsPerPeriod > 0
    /\ Gt(fraudRates[1], I(0))
    /\ fraudRates[2] = I(0)
    /\ detectionRates[1] # eq.v_star
    /\ detectionRates[2] = detectionRates[1]

----------------------------------------------------------------------------
(* C24: the window of recent fraud rates *)

\* min(n, 5)
WindowLength(n) == IF n < 5 THEN n ELSE 5

\* The last n entries of xs, in their order.
LastEntries(xs, n) == SubSeq(xs, Len(xs) - n + 1, Len(xs))

RECURSIVE Total(_)
\* The sum of the entries of xs.
Total(xs) == IF xs = <<>> THEN I(0) ELSE Add(Head(xs), Total(Tail(xs)))

\* The arithmetic mean of the entries of xs.
Mean(xs) == Div(Total(xs), I(Len(xs)))

\* C24: after the end-of-period update of period t the window holds the
\* fraud rates of the last min(t + 1, 5) periods in chronological order,
\* never more than 5 entries, and the audit probability is updated from
\* their arithmetic mean.
C24_WindowHoldsLastFiveRates ==
    [][EndPeriodStep
         => /\ Len(recentFraudRates') = WindowLength(t + 1)
            /\ recentFraudRates' =
                 LastEntries(fraudRates', WindowLength(t + 1))
            /\ adaptiveAuditProb' =
                 AdaptAuditProb(TargetAuditProb(
                     Mean(LastEntries(fraudRates', WindowLength(t + 1)))))
       ]_vars

\* Seven periods are over, the first with a fraud rate of its own that has
\* been evicted, and the window holds five rates that are not all equal.
C24_Witness ==
    /\ pc = "running"
    /\ Len(fraudRates) = 7
    /\ Len(recentFraudRates) = 5
    /\ recentFraudRates = SubSeq(fraudRates, 3, 7)
    /\ fraudRates[1] # fraudRates[3]
    /\ fraudRates[2] # fraudRates[3]
    /\ \E k \in 1..4 : recentFraudRates[k] # recentFraudRates[k + 1]

----------------------------------------------------------------------------
(* C25: the jobs that do not end in a successful dispute *)

\* The job of the step is executed honestly.
HonestStep == JobStep /\ totalFrauds' = totalFrauds

\* The job of the step is a fraud that is not audited.
UndetectedStep == FraudStep /\ totalDetected' = totalDetected

\* The job of the step is a detected fraud whose dispute draw, the last draw
\* of the job, is not below p_w.
FailedDisputeStep ==
    /\ FraudStep
    /\ totalDetected' = totalDetected + 1
    /\ ~Lt(Uniform(rngSeed'), params.p_w)

\* C25: an honest execution adds P_set - c_H to the provider's profit of the
\* period, raises the reputation by 0.1 up to 100 and leaves the client's
\* loss alone; an undetected fraud adds P_set - c_F to the profit and L to
\* the loss and leaves the reputation alone; a detected fraud whose dispute
\* fails adds C_safe + B_C to the loss and leaves profit and reputation
\* alone.
C25_OtherOutcomesSettlement ==
    [][/\ HonestStep
          => /\ periodProviderProfit' =
                  Add(periodProviderProfit, Sub(params.P_set, params.c_H))
             /\ avgReputation' =
                  IF Le(avgReputation, Q(999, 10))
                  THEN Add(avgReputation, Q(1, 10)) ELSE I(100)
             /\ periodClientLoss' = periodClientLoss
       /\ UndetectedStep
          => /\ periodProviderProfit' =
                  Add(periodProviderProfit, Sub(params.P_set, params.c_F))
             /\ periodClientLoss' = Add(periodClientLoss, params.L)
             /\ avgReputation' = avgReputation
       /\ FailedDisputeStep
          => /\ periodClientLoss' =
                  Add(periodClientLoss, Add(params.C_safe, params.B_C))
             /\ periodProviderProfit' = periodProviderProfit
             /\ avgReputation' = avgReputation]_vars

\* A dispute has just been lost in a period that also had an honest
\* execution.
C25_Witness ==
    /\ pc = "running"
    /\ lastJob = "lost"
    /\ periodDetected >= 1
    /\ j > periodFrauds

----------------------------------------------------------------------------
(* C26: the order of the counters *)

\* The third draw of the job about to be processed, when the job is a fraud
\* of a rational agent: the audit draw.
AuditDraw == Uniform(NextSeed(NextSeed(NextSeed(rngSeed))))

\* C26: in every state of a run totalDetected <= totalFrauds <= totalJobs
\* and periodDetected <= periodFrauds <= the jobs of the period processed so
\* far, and so for the totals returned; a job is counted as detected only
\* if it is counted as fraud, and a fraud is counted as detected exactly
\* when it is audited, whatever the outcome of the dispute.
C26_CountersOrdered ==
    [][/\ pc' = "running"
          => /\ totalDetected' <= totalFrauds' /\ totalFrauds' <= totalJobs'
             /\ periodDetected' <= periodFrauds' /\ periodFrauds' <= j'
       /\ \A k \in 1..Len(returned') :
             /\ returned'[k].result.totalDetected
                  <= returned'[k].result.totalFrauds
             /\ returned'[k].result.totalFrauds
                  <= returned'[k].result.totalJobs
       /\ (JobStep /\ totalDetected' # totalDetected) => FraudStep
       /\ (JobStep /\ periodDetected' # periodDetected) => FraudStep
       /\ FraudStep
          => /\ periodFrauds' = periodFrauds + 1
             /\ IF Lt(AuditDraw, EffectiveAuditProb)
                THEN /\ totalDetected' = totalDetected + 1
                     /\ periodDetected' = periodDetected + 1
                ELSE /\ totalDetected' = totalDetected
                     /\ periodDetected' = periodDetected]_vars

\* A fraud has just been counted as detected although its dispute failed,
\* in a period with more jobs than frauds.
C26_Witness ==
    /\ pc = "running"
    /\ lastJob = "lost"
    /\ totalDetected >= 1
    /\ periodDetected <= periodFrauds
    /\ periodFrauds < j

----------------------------------------------------------------------------
(* C27: when the audit probability and the window change *)

\* C27: a job changes neither adaptiveAuditProb nor the window of fraud
\* rates (nor the cumulative sums and the recorded series); within a run
\* the two change only in the end-of-period step, which is taken after the
\* last job of the period and records the new probability as the period's
\* audit rate.
C27_AuditProbFixedWithinPeriod ==
    [][/\ JobStep
          => /\ adaptiveAuditProb' = adaptiveAuditProb
             /\ recentFraudRates' = recentFraudRates
             /\ UNCHANGED <<params, eq, cumVars, seriesVars>>
       /\ (/\ pc = "running" /\ pc' = "running"
           /\ \/ adaptiveAuditProb' # adaptiveAuditProb
              \/ recentFraudRates' # recentFraudRates)
          => EndPeriodStep
       /\ EndPeriodStep
          => /\ j = nJobsPerPeriod
             /\ totalJobs = (t + 1) * nJobsPerPeriod
             /\ totalJobs' = totalJobs
             /\ Len(auditRates') = t + 1
             /\ auditRates'[t + 1] = adaptiveAuditProb'
             /\ recentFraudRates'[Len(recentFraudRates')]
                  = fraudRates'[t + 1]]_vars

\* The second job of period 1 has just been processed with the audit
\* probability that the end of period 0 recorded, which is not the initial
\* one.
C27_Witness ==
    /\ pc = "running"
    /\ t = 1
    /\ j = 2
    /\ lastJob # "none"
    /\ Len(recentFraudRates) = 1
    /\ auditRates = <<adaptiveAuditProb>>
    /\ adaptiveAuditProb # eq.v_star

----------------------------------------------------------------------------
(* C28: the decay of the audit probability without fraud *)

\* xs never increases from one entry to the next.
NonIncreasing(xs) == \A k \in 1..(Len(xs) - 1) : Le(xs[k + 1], xs[k])

\* Once xs equals x it stays at x.
StaysAt(xs, x) ==
    \A k \in 1..(Len(xs) - 1) : xs[k] = x => xs[k + 1] = x

\* C28: when q_star > 0 and the mean of the window is 0, the end-of-period
\* update sets adaptiveAuditProb to max(v_min, min(1, 0.7 * previous
\* value)); and the auditRates of a run without any fraud are
\* non-increasing and, once at v_min, stay at v_min.
C28_DecayWithoutFraud ==
    [][/\ (/\ EndPeriodStep
           /\ Gt(eq.q_star, I(0))
           /\ Mean(recentFraudRates') = I(0))
          => adaptiveAuditProb' =
               MathMax(params.v_min,
                       MathMin(I(1), Mul(Q(7, 10), adaptiveAuditProb)))
       /\ \A k \in 1..Len(returned') :
             returned'[k].result.totalFrauds = 0
                => /\ NonIncreasing(returned'[k].result.auditRates)
                   /\ StaysAt(returned'[k].result.auditRates,
                              returned'[k].params.v_min)]_vars

----------------------------------------------------------------------------
(* Double-precision arithmetic *)

(* A natural number of any size is the sequence of its digits in base
   2^15, least significant first, without leading zeros (<<>> is 0).  A
   finite double is s * m * 2^e with s the sign, m such a natural number of
   at most 53 bits, odd or zero.  The four operations are the exact ones
   followed by the rounding to nearest, ties to even, of IEEE 754; the
   values of the solver are far from overflow and underflow. *)

DigitBase == 32768

DigitBits == 15

MantissaBits == 53

RECURSIVE BTrim(_)
BTrim(x) ==
    IF x = <<>> THEN x
    ELSE IF x[Len(x)] = 0 THEN BTrim(SubSeq(x, 1, Len(x) - 1))
    ELSE x

RECURSIVE BFromInt(_)
BFromInt(n) ==
    IF n = 0 THEN <<>>
    ELSE <<n % DigitBase>> \o BFromInt(n \div DigitBase)

BDigit(x, i) == IF i <= Len(x) THEN x[i] ELSE 0

RECURSIVE BAddFrom(_, _, _, _)
BAddFrom(x, y, i, c) ==
    IF i > Len(x) /\ i > Len(y) THEN (IF c = 0 THEN <<>> ELSE <<c>>)
    ELSE LET sum == BDigit(x, i) + BDigit(y, i) + c
         IN  <<sum % DigitBase>> \o BAddFrom(x, y, i + 1, sum \div DigitBase)

BAdd(x, y) == BAddFrom(x, y, 1, 0)

RECURSIVE BSubFrom(_, _, _, _)
BSubFrom(x, y, i, borrow) ==
    IF i > Len(x) THEN <<>>
    ELSE LET diff == BDigit(x, i) - BDigit(y, i) - borrow
         IN  IF diff < 0
             THEN <<diff + DigitBase>> \o BSubFrom(x, y, i + 1, 1)
             ELSE <<diff>> \o BSubFrom(x, y, i + 1, 0)

\* x - y for x >= y
BSub(x, y) == BTrim(BSubFrom(x, y, 1, 0))

RECURSIVE BCmpFrom(_, _, _)
BCmpFrom(x, y, i) ==
    IF i = 0 THEN 0
    ELSE IF x[i] > y[i] THEN 1
    ELSE IF x[i] < y[i] THEN -1
    ELSE BCmpFrom(x, y, i - 1)

\* -1, 0 or 1 as x is below, equal to or above y
BCmp(x, y) ==
    IF Len(x) > Len(y) THEN 1
    ELSE IF Len(x) < Len(y) THEN -1
    ELSE BCmpFrom(x, y, Len(x))

RECURSIVE BMulSmallFrom(_, _, _, _)
BMulSmallFrom(x, k, i, c) ==
    IF i > Len(x) THEN (IF c = 0 THEN <<>> ELSE <<c>>)
    ELSE LET prod == x[i] * k + c
         IN  <<prod % DigitBase>>
                 \o BMulSmallFrom(x, k, i + 1, prod \div DigitBase)

\* x * k for 0 <= k < 2^15
BMulSmall(x, k) == IF k = 0 THEN <<>> ELSE BMulSmallFrom(x, k, 1, 0)

\* x * 2^(15 n)
BShiftDigits(x, n) == IF x = <<>> THEN x ELSE [i \in 1..n |-> 0] \o x

RECURSIVE BMulFrom(_, _, _)
BMulFrom(x, y, k) ==
    IF k > Len(y) THEN <<>>
    ELSE BAdd(BShiftDigits(BMulSmall(x, y[k]), k - 1), BMulFrom(x, y, k + 1))

BMul(x, y) == BMulFrom(x, y, 1)

\* x * 2^n
BShl(x, n) ==
    BShiftDigits(BMulSmall(x, 2 ^ (n % DigitBits)), n \div DigitBits)

RECURSIVE BDivSmallFrom(_, _, _, _)
BDivSmallFrom(x, k, i, r) ==
    IF i = 0 THEN <<>>
    ELSE LET cur == r * DigitBase + x[i]
         IN  BDivSmallFrom(x, k, i - 1, cur % k) \o <<cur \div k>>

\* x \div 2^n
BShr(x, n) ==
    LET d == n \div DigitBits
    IN  IF d >= Len(x) THEN <<>>
        ELSE LET y == SubSeq(x, d + 1, Len(x))
             IN  BTrim(BDivSmallFrom(y, 2 ^ (n % DigitBits), Len(y), 0))

RECURSIVE IntBitLen(_)
IntBitLen(k) == IF k = 0 THEN 0 ELSE 1 + IntBitLen(k \div 2)

\* The number of bits of x.
BBitLen(x) ==
    IF x = <<>> THEN 0
    ELSE DigitBits * (Len(x) - 1) + IntBitLen(x[Len(x)])

BIsOdd(x) == x # <<>> /\ x[1] % 2 = 1

RECURSIVE IntTrailingZeros(_)
IntTrailingZeros(k) == IF k % 2 = 1 THEN 0 ELSE 1 + IntTrailingZeros(k \div 2)

RECURSIVE BTrailingZeros(_)
\* The number of zero bits below the lowest one bit of x # 0.
BTrailingZeros(x) ==
    IF x[1] = 0 THEN DigitBits + BTrailingZeros(Tail(x))
    ELSE IntTrailingZeros(x[1])

RECURSIVE QuotientDigit(_, _, _, _)
\* The largest digit qd + k, k < 2^(b+1), with d * (qd + k) <= r.
QuotientDigit(r, d, b, qd) ==
    IF b < 0 THEN qd
    ELSE IF BCmp(BMulSmall(d, qd + 2 ^ b), r) <= 0
         THEN QuotientDigit(r, d, b - 1, qd + 2 ^ b)
         ELSE QuotientDigit(r, d, b - 1, qd)

RECURSIVE BDivFrom(_, _, _, _, _)
\* Long division: the quotient and remainder of n by d, digit i of n
\* being the next to bring down.
BDivFrom(n, d, i, q, r) ==
    IF i = 0 THEN [q |-> BTrim(q), r |-> r]
    ELSE LET cur == BTrim(<<n[i]>> \o r)
             qd  == QuotientDigit(cur, d, DigitBits - 1, 0)
         IN  BDivFrom(n, d, i - 1, <<qd>> \o q, BSub(cur, BMulSmall(d, qd)))

\* The quotient and remainder of n by d # 0.
BDivMod(n, d) == BDivFrom(n, d, Len(n), <<>>, <<>>)

FZero == [s |-> 1, m |-> <<>>, e |-> 0]

\* s * m * 2^e with m odd, or zero.
FCanon(s, m, e) ==
    IF m = <<>> THEN FZero
    ELSE LET tz == BTrailingZeros(m)
         IN  [s |-> s, m |-> BShr(m, tz), e |-> e + tz]

\* s * (m + f) * 2^e rounded to 53 bits, to nearest and ties to even, where
\* 0 <= f < 1 and sticky says f > 0 (m has more than 53 bits when sticky).
FRound(s, m, e, sticky) ==
    LET len == BBitLen(m)
    IN  IF len <= MantissaBits THEN FCanon(s, m, e)
        ELSE LET sh   == len - MantissaBits
                 q    == BShr(m, sh)
                 rem  == BSub(m, BShl(q, sh))
                 c    == BCmp(rem, BShl(<<1>>, sh - 1))
                 up   == c > 0 \/ (c = 0 /\ (sticky \/ BIsOdd(q)))
             IN  FCanon(s, IF up THEN BAdd(q, <<1>>) ELSE q, e + sh)

\* The double of the integer n.
FInt(n) == FCanon(IF n < 0 THEN -1 ELSE 1, BFromInt(IF n < 0 THEN -n ELSE n), 0)

FNeg(a) == IF a.m = <<>> THEN a ELSE [a EXCEPT !.s = -a.s]

\* a * b
FMul(a, b) == FRound(a.s * b.s, BMul(a.m, b.m), a.e + b.e, FALSE)

\* a + b
FAdd(a, b) ==
    IF a.m = <<>> THEN b
    ELSE IF b.m = <<>> THEN a
    ELSE LET emin == IF a.e < b.e THEN a.e ELSE b.e
             ma   == BShl(a.m, a.e - emin)
             mb   == BShl(b.m, b.e - emin)
             c    == BCmp(ma, mb)
         IN  IF a.s = b.s THEN FRound(a.s, BAdd(ma, mb), emin, FALSE)
             ELSE IF c = 0 THEN FZero
             ELSE IF c > 0 THEN FRound(a.s, BSub(ma, mb), emin, FALSE)
             ELSE FRound(b.s, BSub(mb, ma), emin, FALSE)

\* a - b
FSub(a, b) == FAdd(a, FNeg(b))

\* a / b for b # 0: the quotient to at least 55 bits, then rounded.
FDiv(a, b) ==
    IF a.m = <<>> THEN FZero
    ELSE LET need == MantissaBits + 2 + BBitLen(b.m) - BBitLen(a.m)
             k    == IF need > 0 THEN need ELSE 0
             n    == BShl(a.m, k)
             dm   == BDivMod(n, b.m)
         IN  FRound(a.s * b.s, dm.q, a.e - b.e - k, dm.r # <<>>)

\* -1, 0 or 1 as a is below, equal to or above b (rounding keeps the sign
\* of a difference, and keeps it away from zero).
FCmp(a, b) == LET d == FSub(a, b) IN IF d.m = <<>> THEN 0 ELSE d.s

\* a >= b
FGe(a, b) == FCmp(a, b) >= 0

\* Math.max(a, b)
FMax(a, b) == IF FGe(a, b) THEN a ELSE b

\* The double nearest to the finite decimal x: what the literal, or the
\* value of a slider, denotes.
FromDecimal(x) == FDiv(FInt(x.n), FInt(x.d))

\* Math.min(a, b)
FMin(a, b) == IF FGe(b, a) THEN a ELSE b

----------------------------------------------------------------------------
(* The solver in double precision *)

(* The same functions as above on the doubles the engine computes with,
   each operation in the order the expression evaluates it.  The records
   below keep every divisor away from zero. *)

\* The doubles of a parameter record.
Doubles(p) == [k \in DOMAIN p |-> FromDecimal(p[k])]

\* p_w * (beta * S_P + lambda * P_set) - (c_proof + c_tx) - (1 - p_w) * B_C
computeDeltaDouble(p) ==
    FSub(FSub(FMul(p.p_w, FAdd(FMul(p.beta, p.S_P), FMul(p.lambda, p.P_set))),
              FAdd(p.c_proof, p.c_tx)),
         FMul(FSub(FInt(1), p.p_w), p.B_C))

\* (c_H - c_F) / (P_set + S_P)
computeThetaDouble(p) == FDiv(FSub(p.c_H, p.c_F), FAdd(p.P_set, p.S_P))

computeMinViableStakeDouble(p) ==
    LET C_disp      == FAdd(FAdd(p.C_safe, p.c_proof), p.c_tx)
        numerator   == FSub(FAdd(C_disp, FMul(FSub(FInt(1), p.p_w), p.B_C)),
                            FMul(FMul(p.p_w, p.lambda), p.P_set))
        denominator == FMul(p.p_w, p.beta)
    IN  FMax(FInt(0), FDiv(numerator, denominator))

computeQStarDouble(p) ==
    LET Delta == computeDeltaDouble(p)
    IN  IF FGe(FInt(0), FAdd(p.L, Delta)) THEN FInt(1)
        ELSE FMin(FInt(1), FDiv(p.C_safe, FAdd(p.L, Delta)))

computeEquilibriumDouble(p) ==
    LET v_star  == computeThetaDouble(p)
        q_star  == computeQStarDouble(p)
        theta   == computeThetaDouble(p)
        Delta   == computeDeltaDouble(p)
        S_P_min == computeMinViableStakeDouble(p)
    IN  [v_star  |-> v_star,
         q_star  |-> q_star,
         theta   |-> theta,
         Delta   |-> Delta,
         S_P_min |-> S_P_min,
         mu_star |-> q_star,
         isEnforcementViable |-> FGe(p.S_P, S_P_min),
         isICsatisfied       |-> FGe(v_star, theta),
         expectedProviderUtility |-> FSub(p.P_set, p.c_H),
         expectedClientUtility   |->
             FAdd(FSub(FSub(FNeg(p.P_set), FMul(v_star, p.C_safe)),
                       FMul(FMul(FSub(FInt(1), v_star), q_star), p.L)),
                  FMul(FMul(v_star, q_star), Delta))]

\* A call of computeEquilibrium, in the engine's arithmetic.
CallComputeEquilibriumDouble ==
    /\ pc = "idle"
    /\ eqOut = NoEquilibrium
    /\ eqOut' = [computed |-> TRUE] @@ computeEquilibriumDouble(Doubles(params))
    /\ UNCHANGED <<params, simVars, libVars, uiVars>>

\* Slider positions around the defaults: stakes, payments and audit costs
\* of the ranges of the dashboard, with p_w * beta > 0 throughout.
DoubleParams ==
    {[DEFAULT_PARAMS EXCEPT !.S_P = sp, !.P_set = ps, !.C_safe = cs,
                            !.beta = b, !.lambda = l, !.p_w = pw] :
        sp \in {I(30), I(100), I(110)}, ps \in {I(50), I(80), I(130)},
        cs \in {I(8), I(31), I(34)}, b \in {Q(3, 10), Q(1, 2), Q(7, 10)},
        l \in {Q(3, 10), Q(2, 5), I(1)}, pw \in {Q(3, 5), Q(19, 20)}}

InitDouble ==
    /\ params \in DoubleParams
    /\ callerParams = params
    /\ eqOut = NoEquilibrium
    /\ pc = "idle"
    /\ NoFrame
    /\ returned = <<>>
    /\ NoLibraryCall
    /\ NoDashboard

NextDouble == CallComputeEquilibriumDouble

SpecDouble == InitDouble /\ [][NextDouble]_vars

----------------------------------------------------------------------------
(* C29 *)

\* computeDelta(params) >= C_safe, as the engine evaluates it.
DeltaCoversSafe == FGe(computeDeltaDouble(Doubles(params)), FromDecimal(params.C_safe))

\* C29: for parameters with p_w * beta > 0, isEnforcementViable is true
\* exactly when the slash reward covers the audit cost, that is
\* S_P >= S_P_min if and only if computeDelta(params) >= C_safe.
C29_ViableExactlyWhenDeltaCoversSafe ==
    (eqOut.computed /\ Gt(Mul(params.p_w, params.beta), I(0)))
        => (eqOut.isEnforcementViable <=> DeltaCoversSafe)

----------------------------------------------------------------------------
(* C30 *)

\* The runs of the mounted Simulation section whose timer has not fired.
PendingRuns == {tm \in timers : tm.mounted}

\* At most one run of the mounted section is pending, and only while
\* isRunning disables the Run button.
OneRunPending ==
    /\ Cardinality(PendingRuns) <= 1
    /\ PendingRuns # {} => (section.tab = "simulation" /\ section.isRunning)

\* A result is displayed: the block under `result &&` is rendered.
ResultDisplayed == section.tab = "simulation" /\ section.result # NoResult

\* C30: under every interleaving of Run clicks, Reset clicks and firings of
\* the 100 ms timer, at most one run is pending at a time, and after a Reset
\* click no result is displayed until Run is clicked again.
C30_NoResultAfterResetUntilRun ==
    /\ OneRunPending
    /\ resetPending => ~ResultDisplayed


============================================================================
